---- MODULE Spec2Model ----
(***************************************************************************)
(* HVAC cost comparison calculator (script.js): the ZIP -> climate record  *)
(* resolver chain, the county dataset merges and the annual cost model.    *)
(*                                                                         *)
(* Conventions of the model                                                *)
(*  - Strings the code takes apart (ZIP codes, FIPS codes, CSV cells) are  *)
(*    sequences of one-character strings; other texts (names, sources,     *)
(*    messages) are sequences of text fragments, concatenated with \o.     *)
(*    The empty sequence is the empty string / a missing text (both falsy).*)
(*  - Numeric fields are integers; Undefined stands for undefined / NaN    *)
(*    and JsNull for null.  Coordinates are in 1/1000 degree.              *)
(*  - Real numbers of the cost model are exact fractions n/d, with the     *)
(*    IEEE specials Infinity, -Infinity and NaN as separate values.        *)
(***************************************************************************)
EXTENDS Integers, Sequences, FiniteSets, TLC

\* ------------------------------------------------------------------------
\* JavaScript scalars
\* ------------------------------------------------------------------------
Undefined == -999999
JsNull == -999998

\* Number.isFinite(x) for a numeric field
NumberIsFinite(x) == x # Undefined /\ x # JsNull

\* Number(v) for a scalar already parsed from JSON: Number(null) is 0,
\* Number(undefined) is NaN, a number is itself.
ToNumber(v) == IF v = JsNull THEN 0 ELSE v

Digits == {"0", "1", "2", "3", "4", "5", "6", "7", "8", "9"}

DigitValue(c) ==
  CASE c = "0" -> 0 [] c = "1" -> 1 [] c = "2" -> 2 [] c = "3" -> 3 [] c = "4" -> 4
    [] c = "5" -> 5 [] c = "6" -> 6 [] c = "7" -> 7 [] c = "8" -> 8 [] c = "9" -> 9

\* String.prototype.trim on a character sequence
RECURSIVE trimStart(_)
trimStart(s) == IF s # <<>> /\ Head(s) = " " THEN trimStart(Tail(s)) ELSE s

RECURSIVE trimEnd(_)
trimEnd(s) ==
  IF s # <<>> /\ s[Len(s)] = " " THEN trimEnd(SubSeq(s, 1, Len(s) - 1)) ELSE s

trim(s) == trimEnd(trimStart(s))

\* String.prototype.padStart(5, '0')
RECURSIVE padStart5(_)
padStart5(s) == IF Len(s) >= 5 THEN s ELSE padStart5(<<"0">> \o s)

RECURSIVE DigitsValue(_, _)
DigitsValue(s, acc) ==
  IF s = <<>> THEN acc ELSE DigitsValue(Tail(s), acc * 10 + DigitValue(Head(s)))

\* Number(String(v).trim()) for a CSV cell: the empty string is 0, an
\* optionally signed run of digits is its value, any other text is NaN.
StringToNumber(s) ==
  LET u == trim(s)
      neg == u # <<>> /\ Head(u) = "-"
      body == IF neg THEN Tail(u) ELSE u
  IN  IF u = <<>> THEN 0
      ELSE IF body # <<>> /\ \A i \in 1..Len(body) : body[i] \in Digits
           THEN IF neg THEN 0 - DigitsValue(body, 0) ELSE DigitsValue(body, 0)
           ELSE Undefined

\* ------------------------------------------------------------------------
\* Objects: every value stored in a table or an index is a record with a
\* tag t: "absent" (no such key / undefined), "scalar" (a JSON value that is
\* not an object, truthy or falsy), "entry" (an object with scalar fields),
\* "map" (kv: the ordered (key, value) pairs of an object whose values are
\* nodes) or "arr" (items: the elements of an array).
\* ------------------------------------------------------------------------
Absent == [t |-> "absent"]
FalsyScalar == [t |-> "scalar", truthy |-> FALSE]
TruthyScalar == [t |-> "scalar", truthy |-> TRUE]

\* typeof v === 'object' && v !== null: an entry (an object whose fields are
\* scalars), a map (an object whose values are nodes) or an array
IsObject(v) == v.t \in {"entry", "map", "arr"}
Truthy(v) == IsObject(v) \/ (v.t = "scalar" /\ v.truthy)

\* entry.k for a numeric field, undefined when the object has no such field
Field(e, k) == IF k \in DOMAIN e THEN e[k] ELSE Undefined
\* entry.k for a text field, the empty text when the object has no such field
TextField(e, k) == IF k \in DOMAIN e THEN e[k] ELSE <<>>


\* ------------------------------------------------------------------------
\* Static tables
\* ------------------------------------------------------------------------
\* Object.values / for-in order of RESNET_ASHRAE_DATA: integer-like keys in
\* ascending numeric order, then the remaining keys in insertion order.
RESNET_ASHRAE_DATA_KEYS ==
  << <<"1","0","0","0","1">>,
     <<"3","0","3","0","1">>,
     <<"3","3","0","4","0">>,
     <<"3","3","1","0","1">>,
     <<"5","5","4","0","1">>,
     <<"6","0","6","0","1">>,
     <<"7","5","2","0","1">>,
     <<"7","7","0","0","1">>,
     <<"8","0","2","0","2">>,
     <<"8","3","0","0","1">>,
     <<"8","5","0","0","1">>,
     <<"8","9","1","0","1">>,
     <<"9","0","2","1","0">>,
     <<"9","4","1","0","2">>,
     <<"9","6","0","0","1">>,
     <<"9","7","2","0","1">>,
     <<"9","7","5","0","1">>,
     <<"9","7","7","0","1">>,
     <<"9","8","1","0","1">>,
     <<"0","2","1","0","1">> >>

\* The table as loaded from resnet_ashrae_data.js.  Its entries are shared
\* objects: the resolver writes one field of them (see CountyResponse), so the
\* current table is the state variable RESNET_ASHRAE_DATA.
RESNET_ASHRAE_DATA_INITIAL ==
  <<"1","0","0","0","1">> :> [t |-> "entry", name |-> <<"New York, NY">>, heating |-> 8, cooling |-> 88, hdd |-> 5000, cdd |-> 600,
      source |-> <<"John F. Kennedy International Airport">>, lat |-> 40641, lon |-> -73778] @@
  <<"3","0","3","0","1">> :> [t |-> "entry", name |-> <<"Atlanta, GA">>, heating |-> 18, cooling |-> 92, hdd |-> 3000, cdd |-> 1800,
      source |-> <<"Hartsfield-Jackson Atlanta International Airport">>, lat |-> 33640, lon |-> -84428] @@
  <<"3","3","0","4","0">> :> [t |-> "entry", name |-> <<"Key West, FL">>, heating |-> 50, cooling |-> 90, hdd |-> 100, cdd |-> 3800,
      source |-> <<"Key West International Airport">>, lat |-> 24556, lon |-> -81759] @@
  <<"3","3","1","0","1">> :> [t |-> "entry", name |-> <<"Miami, FL">>, heating |-> 48, cooling |-> 89, hdd |-> 200, cdd |-> 3500,
      source |-> <<"Miami International Airport">>, lat |-> 25795, lon |-> -80287] @@
  <<"5","5","4","0","1">> :> [t |-> "entry", name |-> <<"Minneapolis, MN">>, heating |-> -15, cooling |-> 85, hdd |-> 9000, cdd |-> 300,
      source |-> <<"Minneapolis-Saint Paul International Airport">>, lat |-> 44884, lon |-> -93222] @@
  <<"6","0","6","0","1">> :> [t |-> "entry", name |-> <<"Chicago, IL">>, heating |-> -5, cooling |-> 88, hdd |-> 7000, cdd |-> 600,
      source |-> <<"Chicago O'Hare International Airport">>, lat |-> 41978, lon |-> -87907] @@
  <<"7","5","2","0","1">> :> [t |-> "entry", name |-> <<"Dallas, TX">>, heating |-> 18, cooling |-> 98, hdd |-> 2500, cdd |-> 2500,
      source |-> <<"Dallas/Fort Worth International Airport">>, lat |-> 32896, lon |-> -97038] @@
  <<"7","7","0","0","1">> :> [t |-> "entry", name |-> <<"Houston, TX">>, heating |-> 28, cooling |-> 95, hdd |-> 1500, cdd |-> 3000,
      source |-> <<"George Bush Intercontinental Airport">>, lat |-> 29984, lon |-> -95341] @@
  <<"8","0","2","0","2">> :> [t |-> "entry", name |-> <<"Denver, CO">>, heating |-> 5, cooling |-> 92, hdd |-> 6000, cdd |-> 800,
      source |-> <<"Denver International Airport">>, lat |-> 39856, lon |-> -104673] @@
  <<"8","3","0","0","1">> :> [t |-> "entry", name |-> <<"Jackson, WY">>, heating |-> -15, cooling |-> 82, hdd |-> 10000, cdd |-> 200,
      source |-> <<"Jackson Hole Airport">>, lat |-> 43607, lon |-> -110738] @@
  <<"8","5","0","0","1">> :> [t |-> "entry", name |-> <<"Phoenix, AZ">>, heating |-> 32, cooling |-> 108, hdd |-> 1000, cdd |-> 4500,
      source |-> <<"Phoenix Sky Harbor International Airport">>, lat |-> 33434, lon |-> -112011] @@
  <<"8","9","1","0","1">> :> [t |-> "entry", name |-> <<"Las Vegas, NV">>, heating |-> 28, cooling |-> 108, hdd |-> 1500, cdd |-> 3500,
      source |-> <<"McCarran International Airport">>, lat |-> 36085, lon |-> -115153] @@
  <<"9","0","2","1","0">> :> [t |-> "entry", name |-> <<"Los Angeles, CA">>, heating |-> 40, cooling |-> 85, hdd |-> 800, cdd |-> 1200,
      source |-> <<"Los Angeles International Airport">>, lat |-> 34052, lon |-> -118244] @@
  <<"9","4","1","0","2">> :> [t |-> "entry", name |-> <<"San Francisco, CA">>, heating |-> 38, cooling |-> 75, hdd |-> 2000, cdd |-> 200,
      source |-> <<"San Francisco International Airport">>, lat |-> 37774, lon |-> -122419] @@
  <<"9","6","0","0","1">> :> [t |-> "entry", name |-> <<"Redding, CA">>, heating |-> 25, cooling |-> 108, hdd |-> 3000, cdd |-> 2500,
      source |-> <<"Redding Municipal Airport">>, lat |-> 40509, lon |-> -122293] @@
  <<"9","7","2","0","1">> :> [t |-> "entry", name |-> <<"Portland, OR">>, heating |-> 20, cooling |-> 88, hdd |-> 4000, cdd |-> 400,
      source |-> <<"Portland International Airport">>, lat |-> 45589, lon |-> -122593] @@
  <<"9","7","5","0","1">> :> [t |-> "entry", name |-> <<"Jacksonville, OR">>, heating |-> 15, cooling |-> 98, hdd |-> 4500, cdd |-> 600,
      source |-> <<"Rogue Valley International-Medford Airport">>, lat |-> 42374, lon |-> -122873] @@
  <<"9","7","7","0","1">> :> [t |-> "entry", name |-> <<"Bend, OR">>, heating |-> 5, cooling |-> 88, hdd |-> 6000, cdd |-> 300,
      source |-> <<"Bend Municipal Airport">>, lat |-> 44094, lon |-> -121200] @@
  <<"9","8","1","0","1">> :> [t |-> "entry", name |-> <<"Seattle, WA">>, heating |-> 25, cooling |-> 82, hdd |-> 4000, cdd |-> 200,
      source |-> <<"Seattle-Tacoma International Airport">>, lat |-> 47450, lon |-> -122309] @@
  <<"0","2","1","0","1">> :> [t |-> "entry", name |-> <<"Boston, MA">>, heating |-> 5, cooling |-> 85, hdd |-> 6000, cdd |-> 400,
      source |-> <<"Logan International Airport">>, lat |-> 42360, lon |-> -71058]

LOCAL_RESNET_FALLBACK ==
  <<"0","1","0","0","1">> :> [t |-> "entry", name |-> <<"AGAWAM/WESTFIELD, MA">>, heating |-> 5, cooling |-> 87,
      hdd |-> 6479, cdd |-> 764, lat |-> 42100, lon |-> -72600, source |-> <<"Hardcoded Fallback">>] @@
  <<"9","7","2","0","1">> :> [t |-> "entry", name |-> <<"PORTLAND, OR">>, heating |-> 25, cooling |-> 85,
      hdd |-> 4635, cdd |-> 341, lat |-> 45500, lon |-> -122700, source |-> <<"Hardcoded Fallback">>]

ZIP_TO_FIPS_OVERRIDE ==
  <<"9","7","2","0","1">> :> <<"4","1","0","5","1">> @@
  <<"9","7","2","1","9">> :> <<"4","1","0","5","1">> @@
  <<"9","7","5","0","1">> :> <<"4","1","0","2","9">> @@
  <<"9","7","0","1","5">> :> <<"4","1","0","0","5">> @@
  <<"9","6","0","0","1">> :> <<"0","6","0","8","9">>

\* ashrae_county_data.js: an object keyed by FIPS
ASHRAE_COUNTY_DATA ==
  [t |-> "map", kv |->
  << << <<"4","1","0","5","1">>,
        [t |-> "entry", name |-> <<"Multnomah County, OR">>, state |-> <<"OR">>,
         fips |-> <<"4","1","0","5","1">>, heating |-> 24, cooling |-> 88, hdd |-> 4000, cdd |-> 400,
         source |-> <<"Appendix A (Normative) 2013 + RESNET HDD/CDD (Portland Intl Airport)">>,
         lat |-> 45520, lon |-> -122680] >>,
     << <<"4","1","0","2","9">>,
        [t |-> "entry", name |-> <<"Jackson County, OR">>, state |-> <<"OR">>,
         fips |-> <<"4","1","0","2","9">>, heating |-> 15, cooling |-> 98, hdd |-> 4500, cdd |-> 600,
         source |-> <<"Appendix A (Normative) + RESNET HDD/CDD (Rogue Valley Intl-Medford)">>,
         lat |-> 42330, lon |-> -122870] >> >>]

\* Messages passed to showError
MsgInvalidZip == "Please enter a valid 5-digit zip code"
MsgNeedsNetwork == "This ZIP requires a network lookup. Please use Go Live to run on a local server."
MsgNoData == "No valid county-level ASHRAE data available for this ZIP."
MsgInvalidData == "Invalid ASHRAE county data for this ZIP."
NoError == "none"

\* ------------------------------------------------------------------------
\* Geo distance.  The haversine formula needs sin, cos and atan2; the model
\* tabulates the value the formula gives (in tenths of a mile, Earth radius
\* 3959 mi, resp. tenths of a kilometre, radius 6371 km) for every pair of
\* coordinates that occurs in the model.
\* ------------------------------------------------------------------------
MilesTable ==
  <<45450, -122700, 40641, -73778>> :> 24542 @@
  <<45450, -122700, 33640, -84428>> :> 21715 @@
  <<45450, -122700, 24556, -81759>> :> 26884 @@
  <<45450, -122700, 25795, -80287>> :> 26992 @@
  <<45450, -122700, 44884, -93222>> :> 14285 @@
  <<45450, -122700, 41978, -87907>> :> 17403 @@
  <<45450, -122700, 32896, -97038>> :> 16145 @@
  <<45450, -122700, 29984, -95341>> :> 18232 @@
  <<45450, -122700, 39856, -104673>> :> 9915 @@
  <<45450, -122700, 43607, -110738>> :> 6022 @@
  <<45450, -122700, 33434, -112011>> :> 10053 @@
  <<45450, -122700, 36085, -115153>> :> 7573 @@
  <<45450, -122700, 34052, -118244>> :> 8220 @@
  <<45450, -122700, 37774, -122419>> :> 5306 @@
  <<45450, -122700, 40509, -122293>> :> 3420 @@
  <<45450, -122700, 45589, -122593>> :> 109 @@
  <<45450, -122700, 42374, -122873>> :> 2127 @@
  <<45450, -122700, 44094, -121200>> :> 1191 @@
  <<45450, -122700, 47450, -122309>> :> 1394 @@
  <<45450, -122700, 42360, -71058>> :> 25353 @@
  <<45450, -122700, 45590, -122600>> :> 108 @@
  <<45450, -122700, 45450, -122700>> :> 0 @@
  <<45450, -122700, 40780, -73970>> :> 24411 @@
  <<40730, -74170, 40641, -73778>> :> 214 @@
  <<40730, -74170, 33640, -84428>> :> 7466 @@
  <<40730, -74170, 24556, -81759>> :> 12004 @@
  <<40730, -74170, 25795, -80287>> :> 10901 @@
  <<40730, -74170, 44884, -93222>> :> 10049 @@
  <<40730, -74170, 41978, -87907>> :> 7169 @@
  <<40730, -74170, 32896, -97038>> :> 13707 @@
  <<40730, -74170, 29984, -95341>> :> 13996 @@
  <<40730, -74170, 39856, -104673>> :> 16007 @@
  <<40730, -74170, 43607, -110738>> :> 18681 @@
  <<40730, -74170, 33434, -112011>> :> 21285 @@
  <<40730, -74170, 36085, -115153>> :> 22218 @@
  <<40730, -74170, 34052, -118244>> :> 24371 @@
  <<40730, -74170, 37774, -122419>> :> 25572 @@
  <<40730, -74170, 40509, -122293>> :> 24914 @@
  <<40730, -74170, 45589, -122593>> :> 24262 @@
  <<40730, -74170, 42374, -122873>> :> 24861 @@
  <<40730, -74170, 44094, -121200>> :> 23778 @@
  <<40730, -74170, 47450, -122309>> :> 23941 @@
  <<40730, -74170, 42360, -71058>> :> 1964 @@
  <<40730, -74170, 45590, -122600>> :> 24265 @@
  <<40730, -74170, 45450, -122700>> :> 24329 @@
  <<40730, -74170, 40780, -73970>> :> 110

KmTable ==
  <<45520, -122680, 45590, -122600>> :> 100 @@
  <<45520, -122680, 45450, -122700>> :> 79 @@
  <<45520, -122680, 40780, -73970>> :> 39254 @@
  <<42330, -122870, 45590, -122600>> :> 3631 @@
  <<42330, -122870, 45450, -122700>> :> 3472 @@
  <<42330, -122870, 40780, -73970>> :> 40158 @@
  <<45410, -122570, 45590, -122600>> :> 202 @@
  <<45410, -122570, 45450, -122700>> :> 111 @@
  <<45410, -122570, 40780, -73970>> :> 39191

calculateDistance(lat1, lon1, lat2, lon2) == MilesTable[<<lat1, lon1, lat2, lon2>>]

haversine(lat1, lon1, lat2, lon2) == KmTable[<<lat1, lon1, lat2, lon2>>]

\* The scan shared by the three nearest-match functions: ds[i] is the
\* distance of candidate i, or Skip for a candidate the loop passes over.
\* bestD starts at Infinity (best = 0); a candidate replaces the best one
\* only when strictly nearer.  Returns the index of the winner, 0 if none.
Skip == -1

\* a scan in which a candidate as near as the best one replaces it
RECURSIVE ScanNearestLast(_, _, _, _)
ScanNearestLast(ds, i, best, bestD) ==
  IF i > Len(ds) THEN best
  ELSE IF ds[i] # Skip /\ (best = 0 \/ ds[i] <= bestD)
       THEN ScanNearestLast(ds, i + 1, i, ds[i])
       ELSE ScanNearestLast(ds, i + 1, best, bestD)

RECURSIVE ScanNearest(_, _, _, _)
ScanNearest(ds, i, best, bestD) ==
  IF i > Len(ds) THEN best
  ELSE IF ds[i] # Skip /\ (best = 0 \/ ds[i] < bestD)
       THEN ScanNearest(ds, i + 1, i, ds[i])
       ELSE ScanNearest(ds, i + 1, best, bestD)

\* getResnetStations: the keys, in iteration order, of the entries with
\* finite coordinates
getResnetStations(data) ==
  SelectSeq(RESNET_ASHRAE_DATA_KEYS,
            LAMBDA z : Truthy(data[z]) /\ NumberIsFinite(Field(data[z], "lat"))
                                       /\ NumberIsFinite(Field(data[z], "lon")))

\* findNearestResnetStation: the key of the closest station, <<>> for null
findNearestResnetStation(data, lat, lon) ==
  LET stations == getResnetStations(data)
  IN  IF Len(stations) = 0 \/ ~NumberIsFinite(lat) \/ ~NumberIsFinite(lon) THEN <<>>
      ELSE LET ds == [i \in 1..Len(stations) |->
                        calculateDistance(lat, lon, data[stations[i]].lat, data[stations[i]].lon)]
               best == ScanNearest(ds, 1, 0, 0)
           IN  IF best = 0 THEN <<>> ELSE stations[best]

\* findNearestNoaaStation: { station, distance_mi } or null (Absent)
findNearestNoaaStation(lat, lon, stations) ==
  IF ~NumberIsFinite(lat) \/ ~NumberIsFinite(lon) \/ Len(stations) = 0 THEN Absent
  ELSE LET ds == [i \in 1..Len(stations) |->
                    IF ~NumberIsFinite(Field(stations[i], "latitude"))
                       \/ ~NumberIsFinite(Field(stations[i], "longitude"))
                    THEN Skip
                    ELSE calculateDistance(lat, lon, stations[i].latitude, stations[i].longitude)]
           best == ScanNearest(ds, 1, 0, 0)
       IN  IF best = 0 THEN Absent
           ELSE [t |-> "entry", station |-> stations[best], distance_mi |-> ds[best]]

\* nearestStation (NOAA normals merge, kilometres)
nearestStation(lat, lon, stations) ==
  IF ~NumberIsFinite(lat) \/ ~NumberIsFinite(lon) \/ Len(stations) = 0 THEN Absent
  ELSE LET ds == [i \in 1..Len(stations) |->
                    haversine(lat, lon, stations[i].lat, stations[i].lon)]
           best == ScanNearest(ds, 1, 0, 0)
       IN  IF best = 0 THEN Absent ELSE stations[best]

\* ------------------------------------------------------------------------
\* Normalization of a raw county entry
\* ------------------------------------------------------------------------
getNum(v) == LET n == ToNumber(v) IN IF NumberIsFinite(n) THEN n ELSE Undefined

\* a ?? b ?? c ?? d over results of getNum (a number or undefined)
Coalesce(a, b, c, d) ==
  IF a # Undefined THEN a ELSE IF b # Undefined THEN b ELSE IF c # Undefined THEN c ELSE d

\* a normalization that marks the source text of the record it returns
normalizeCountyEntryMarking(entry, fipsInfo) ==
  [name    |-> IF TextField(entry, "name") # <<>> THEN entry.name
               ELSE fipsInfo.countyName \o <<", ">> \o fipsInfo.stateAbbr,
   heating |-> Coalesce(getNum(Field(entry, "heating")), getNum(Field(entry, "heating_99")),
                        getNum(Field(entry, "heatingDesign")), getNum(Field(entry, "heating_design"))),
   cooling |-> Coalesce(getNum(Field(entry, "cooling")), getNum(Field(entry, "cooling_01")),
                        getNum(Field(entry, "coolingDesign")), getNum(Field(entry, "cooling_design"))),
   hdd     |-> Coalesce(getNum(Field(entry, "hdd")), getNum(Field(entry, "HDD")),
                        getNum(Field(entry, "heating_degree_days")), getNum(Field(entry, "HDD65"))),
   cdd     |-> Coalesce(getNum(Field(entry, "cdd")), getNum(Field(entry, "CDD")),
                        getNum(Field(entry, "cooling_degree_days")), getNum(Field(entry, "CDD65"))),
   source  |-> TextField(entry, "source") \o <<"Appendix A (Normative) + RESNET HDD/CDD">>,
   lat     |-> getNum(Field(entry, "lat")),
   lon     |-> getNum(Field(entry, "lon"))]

normalizeCountyEntry(entry, fipsInfo) ==
  [name    |-> IF TextField(entry, "name") # <<>> THEN entry.name
               ELSE fipsInfo.countyName \o <<", ">> \o fipsInfo.stateAbbr,
   heating |-> Coalesce(getNum(Field(entry, "heating")), getNum(Field(entry, "heating_99")),
                        getNum(Field(entry, "heatingDesign")), getNum(Field(entry, "heating_design"))),
   cooling |-> Coalesce(getNum(Field(entry, "cooling")), getNum(Field(entry, "cooling_01")),
                        getNum(Field(entry, "coolingDesign")), getNum(Field(entry, "cooling_design"))),
   hdd     |-> Coalesce(getNum(Field(entry, "hdd")), getNum(Field(entry, "HDD")),
                        getNum(Field(entry, "heating_degree_days")), getNum(Field(entry, "HDD65"))),
   cdd     |-> Coalesce(getNum(Field(entry, "cdd")), getNum(Field(entry, "CDD")),
                        getNum(Field(entry, "cooling_degree_days")), getNum(Field(entry, "CDD65"))),
   source  |-> IF TextField(entry, "source") # <<>> THEN entry.source
               ELSE <<"Appendix A (Normative) + RESNET HDD/CDD">>,
   lat     |-> getNum(Field(entry, "lat")),
   lon     |-> getNum(Field(entry, "lon"))]

\* ------------------------------------------------------------------------
\* County dataset index
\* ------------------------------------------------------------------------
\* index[k], undefined (Absent) when the index has no key k
Get(index, k) == IF k \in DOMAIN index THEN index[k] ELSE Absent

\* val.fips || val.FIPS || val.countyFIPS || val.county_fips
fipsRawOf(val) ==
  IF TextField(val, "fips") # <<>> THEN val.fips
  ELSE IF TextField(val, "FIPS") # <<>> THEN val.FIPS
  ELSE IF TextField(val, "countyFIPS") # <<>> THEN val.countyFIPS
  ELSE TextField(val, "county_fips")

\* addEntry: the assignment index[fips] = val it makes, as a list of at most
\* one (fips, val) pair
addEntry(val) ==
  IF IsObject(val) /\ fipsRawOf(val) # <<>>
  THEN << <<padStart5(fipsRawOf(val)), val>> >>
  ELSE <<>>

\* Object.entries(node): the (key, value) pairs of a map, the (index, item)
\* pairs of an array; the fields of an entry are scalars
IndexKey(i) == << CASE i = 1 -> "0" [] i = 2 -> "1" [] i = 3 -> "2" [] OTHER -> "3" >>

ObjectEntries(node) ==
  IF node.t = "map" THEN node.kv
  ELSE IF node.t = "arr" THEN [i \in 1..Len(node.items) |-> <<IndexKey(i), node.items[i]>>]
  ELSE <<>>

\* walk(node, depth): the assignments made, in order
RECURSIVE walk(_, _)
RECURSIVE walkItems(_, _, _)
walkItems(items, depth, isArray) ==
  IF items = <<>> THEN <<>>
  ELSE LET item == Head(items)
       IN  (IF isArray THEN addEntry(item) ELSE <<>>)
           \o (IF IsObject(item) THEN walk(item, depth + 1) ELSE <<>>)
           \o walkItems(Tail(items), depth, isArray)

walk(node, depth) ==
  IF ~Truthy(node) \/ depth > 3 THEN <<>>
  ELSE IF node.t = "arr" THEN walkItems(node.items, depth, TRUE)
  ELSE IF IsObject(node)
       THEN addEntry(node)
            \o walkItems([i \in 1..Len(ObjectEntries(node)) |-> ObjectEntries(node)[i][2]], depth, FALSE)
       ELSE <<>>

\* The object built by a list of assignments obj[k] = v: the last one wins
FromAssignments(pairs) ==
  [k \in {pairs[i][1] : i \in 1..Len(pairs)} |->
     pairs[CHOOSE i \in 1..Len(pairs) :
             pairs[i][1] = k /\ \A j \in (i + 1)..Len(pairs) : pairs[j][1] # k][2]]

\* The shallow key scan of buildCountyFipsIndex
shallowScan(dataset) ==
  LET es == ObjectEntries(dataset)
      objs == SelectSeq(es, LAMBDA e : IsObject(e[2]))
  IN  FromAssignments([i \in 1..Len(objs) |->
        <<padStart5(IF fipsRawOf(objs[i][2]) # <<>> THEN fipsRawOf(objs[i][2]) ELSE objs[i][1]),
          objs[i][2]>>])

\* buildCountyFipsIndex(dataset), for a dataset that is a map or an array
buildCountyFipsIndex(dataset) ==
  LET index == FromAssignments(walk(dataset, 0))
      shallow == shallowScan(dataset)
  IN  IF DOMAIN index # {} THEN index
      ELSE IF DOMAIN shallow # {} THEN shallow
      ELSE FromAssignments(ObjectEntries(dataset))

\* tryLoadExternalCountyJson.  files: the two candidate files in preference
\* order, each NotFound (fetch not ok, or a body that is not JSON) or a node.
NotFound == [t |-> "notfound"]

FirstJson(files) ==
  IF files[1] # NotFound THEN files[1] ELSE files[2]

MergeJsonInto(index, idx) ==
  [k \in DOMAIN index \cup DOMAIN idx |->
     IF k \in DOMAIN idx /\ ~Truthy(Get(index, k)) THEN idx[k] ELSE index[k]]

\* tryLoadExternalCountyJson returns before its merge loop: no candidate
\* file could be fetched and parsed, or the value parsed is falsy
jsonUnread(files) == FirstJson(files) = NotFound \/ ~Truthy(FirstJson(files))

JsonMerge(index, files) ==
  LET json == FirstJson(files)
  IN  IF json = NotFound \/ ~Truthy(json) THEN index
      ELSE MergeJsonInto(index, buildCountyFipsIndex(json))

\* ------------------------------------------------------------------------
\* CSV imports.  A file is NotFound or [header, rows]: the cells of the
\* first line, trimmed and lower-cased, and the cells of each further
\* non-empty line.
\* ------------------------------------------------------------------------
\* header.indexOf(name), 1-based, 0 when absent
IndexOf(header, name) ==
  IF \E i \in 1..Len(header) : header[i] = name
  THEN CHOOSE i \in 1..Len(header) : header[i] = name /\ \A j \in 1..(i - 1) : header[j] # name
  ELSE 0

\* [idx(a1), idx(a2), ...].find(i => i >= 0): the column of the first alias
\* that the header has, 0 when none
FindColumn(header, aliases) ==
  IF \E a \in 1..Len(aliases) : IndexOf(header, aliases[a]) > 0
  THEN IndexOf(header, aliases[CHOOSE a \in 1..Len(aliases) :
                          IndexOf(header, aliases[a]) > 0
                          /\ \A b \in 1..(a - 1) : IndexOf(header, aliases[b]) = 0])
  ELSE 0

\* String(cols[i]): the cell, or "undefined" past the end of the line
Cell(cols, i) == IF i <= Len(cols) THEN cols[i] ELSE <<"undefined">>

toUpperCase(s) ==
  [i \in 1..Len(s) |-> CASE s[i] = "o" -> "O" [] s[i] = "r" -> "R" [] s[i] = "w" -> "W"
                         [] s[i] = "a" -> "A" [] OTHER -> s[i]]

\* the getNum of tryLoadExternalCountyCsv
csvGetNum(v) == LET n == StringToNumber(v) IN IF NumberIsFinite(n) THEN n ELSE Undefined

csvEntry(header, cols, fips) ==
  LET nameIdx == FindColumn(header, <<"name", "county", "county_name">>)
      stateIdx == FindColumn(header, <<"state", "state_abbr", "state_code">>)
      heatingIdx == FindColumn(header, <<"heating", "heating_99", "heatingdesign", "heating_design">>)
      coolingIdx == FindColumn(header, <<"cooling", "cooling_01", "coolingdesign", "cooling_design">>)
      hddIdx == FindColumn(header, <<"hdd", "hdd65", "heating_degree_days">>)
      cddIdx == FindColumn(header, <<"cdd", "cdd65", "cooling_degree_days">>)
  IN  [t |-> "entry",
       name |-> IF nameIdx > 0 THEN trim(Cell(cols, nameIdx)) ELSE <<>>,
       state |-> IF stateIdx > 0 THEN toUpperCase(trim(Cell(cols, stateIdx))) ELSE <<>>,
       fips |-> fips,
       heating |-> IF heatingIdx > 0 THEN csvGetNum(Cell(cols, heatingIdx)) ELSE Undefined,
       cooling |-> IF coolingIdx > 0 THEN csvGetNum(Cell(cols, coolingIdx)) ELSE Undefined,
       hdd |-> IF hddIdx > 0 THEN csvGetNum(Cell(cols, hddIdx)) ELSE Undefined,
       cdd |-> IF cddIdx > 0 THEN csvGetNum(Cell(cols, cddIdx)) ELSE Undefined,
       source |-> <<"External CSV import">>]

\* the row loop of tryLoadExternalCountyCsv, from row i on
RECURSIVE csvRows(_, _, _, _, _)
csvRows(index, header, rows, fipsIdx, i) ==
  IF i > Len(rows) THEN index
  ELSE LET cols == rows[i]
           fips == padStart5(trim(Cell(cols, fipsIdx)))
       IN  IF Len(cols) < fipsIdx \/ Truthy(Get(index, fips))
           THEN csvRows(index, header, rows, fipsIdx, i + 1)
           ELSE csvRows((fips :> csvEntry(header, cols, fips)) @@ index,
                        header, rows, fipsIdx, i + 1)

\* CsvMerge without the guard on the FIPS column: the first column is taken
CsvMergeFirstColumn(index, file) ==
  IF file = NotFound THEN index
  ELSE IF Len(file.rows) < 1 THEN index
  ELSE LET fipsIdx == FindColumn(file.header, <<"fips", "county_fips">>)
       IN  IF fipsIdx = 0 THEN csvRows(index, file.header, file.rows, 1, 1)
           ELSE csvRows(index, file.header, file.rows, fipsIdx, 1)

\* tryLoadExternalCountyCsv returns before its row loop: the file could not
\* be fetched, has no line after the header, or has no FIPS column
csvUnread(file) ==
  IF file = NotFound THEN TRUE
  ELSE Len(file.rows) < 1 \/ FindColumn(file.header, <<"fips", "county_fips">>) = 0

CsvMerge(index, file) ==
  IF file = NotFound THEN index
  ELSE IF Len(file.rows) < 1 THEN index
  ELSE LET fipsIdx == FindColumn(file.header, <<"fips", "county_fips">>)
       IN  IF fipsIdx = 0 THEN index
           ELSE csvRows(index, file.header, file.rows, fipsIdx, 1)

\* ------------------------------------------------------------------------
\* NOAA normals merge: fills hdd / cdd that are missing on index entries
\* ------------------------------------------------------------------------
\* parseFloat(s): the value of the longest numeric prefix (an optionally
\* signed run of digits) after leading blanks, NaN when there is none
RECURSIVE digitPrefix(_)
digitPrefix(s) ==
  IF s # <<>> /\ Head(s) \in Digits THEN <<Head(s)>> \o digitPrefix(Tail(s)) ELSE <<>>

parseFloat(s) ==
  LET u == trimStart(s)
      neg == u # <<>> /\ Head(u) = "-"
      ds == digitPrefix(IF neg THEN Tail(u) ELSE u)
  IN  IF ds = <<>> THEN Undefined
      ELSE IF neg THEN 0 - DigitsValue(ds, 0) ELSE DigitsValue(ds, 0)

\* the station list built from the rows of the normals CSV (coordinates in
\* the file are in 1/1000 degree in the model)
normalsStations(file) ==
  LET idIdx == FindColumn(file.header, <<"station_id", "id", "station">>)
      nameIdx == FindColumn(file.header, <<"station_name", "name">>)
      latIdx == FindColumn(file.header, <<"latitude", "lat">>)
      lonIdx == FindColumn(file.header, <<"longitude", "lon", "lng">>)
      hddIdx == FindColumn(file.header, <<"hdd65_ann", "hdd65", "hdd">>)
      cddIdx == FindColumn(file.header, <<"cdd65_ann", "cdd65", "cdd">>)
      maxIdx == IF idIdx >= latIdx /\ idIdx >= lonIdx THEN idIdx
                ELSE IF latIdx >= lonIdx THEN latIdx ELSE lonIdx
      station(cols) ==
        [t |-> "entry",
         id |-> trim(Cell(cols, idIdx)),
         name |-> IF nameIdx > 0 THEN trim(Cell(cols, nameIdx)) ELSE <<>>,
         lat |-> parseFloat(Cell(cols, latIdx)),
         lon |-> parseFloat(Cell(cols, lonIdx)),
         hdd |-> IF hddIdx > 0 THEN parseFloat(Cell(cols, hddIdx)) ELSE Undefined,
         cdd |-> IF cddIdx > 0 THEN parseFloat(Cell(cols, cddIdx)) ELSE Undefined]
      kept == SelectSeq(file.rows, LAMBDA cols :
                Len(cols) >= maxIdx
                /\ NumberIsFinite(parseFloat(Cell(cols, latIdx)))
                /\ NumberIsFinite(parseFloat(Cell(cols, lonIdx))))
  IN  IF idIdx = 0 \/ latIdx = 0 \/ lonIdx = 0 THEN <<>>
      ELSE [i \in 1..Len(kept) |-> station(kept[i])]

\* a county loop that takes the nearest station's figures whether or not the
\* entry has its own
normalsFillOverwriting(entry, stations) ==
  LET nearest == nearestStation(Field(entry, "lat"), Field(entry, "lon"), stations)
      withHdd == IF NumberIsFinite(nearest.hdd) THEN ("hdd" :> nearest.hdd) @@ entry ELSE entry
  IN  IF nearest = Absent THEN entry
      ELSE IF NumberIsFinite(nearest.cdd) THEN ("cdd" :> nearest.cdd) @@ withHdd ELSE withHdd

\* a county loop that takes both figures of the nearest station as soon as
\* the entry lacks one of them
normalsFillEitherNeed(entry, stations) ==
  LET needsHdd == ~NumberIsFinite(Field(entry, "hdd"))
      needsCdd == ~NumberIsFinite(Field(entry, "cdd"))
      nearest == nearestStation(Field(entry, "lat"), Field(entry, "lon"), stations)
      withHdd == IF NumberIsFinite(nearest.hdd) THEN ("hdd" :> nearest.hdd) @@ entry ELSE entry
  IN  IF ~needsHdd /\ ~needsCdd THEN entry
      ELSE IF nearest = Absent THEN entry
      ELSE IF NumberIsFinite(nearest.cdd) THEN ("cdd" :> nearest.cdd) @@ withHdd ELSE withHdd

\* the update of one index entry by the county loop
normalsFill(entry, stations) ==
  LET needsHdd == ~NumberIsFinite(Field(entry, "hdd"))
      needsCdd == ~NumberIsFinite(Field(entry, "cdd"))
      nearest == nearestStation(Field(entry, "lat"), Field(entry, "lon"), stations)
      withHdd == IF needsHdd /\ NumberIsFinite(nearest.hdd)
                 THEN ("hdd" :> nearest.hdd) @@ entry ELSE entry
  IN  IF ~needsHdd /\ ~needsCdd THEN entry
      ELSE IF nearest = Absent THEN entry
      ELSE IF needsCdd /\ NumberIsFinite(nearest.cdd)
           THEN ("cdd" :> nearest.cdd) @@ withHdd ELSE withHdd

\* tryMergeNoaaNormalsHddCdd returns before its county loop: the file could
\* not be fetched, has no line after the header, lacks a required column,
\* or yields no station with coordinates
normalsUnread(file) ==
  IF file = NotFound THEN TRUE
  ELSE Len(file.rows) < 1 \/ Len(normalsStations(file)) = 0

NormalsMerge(index, file) ==
  IF file = NotFound THEN index
  ELSE IF Len(file.rows) < 1 THEN index
  ELSE LET stations == normalsStations(file)
       IN  IF Len(stations) = 0 THEN index
           ELSE [k \in DOMAIN index |-> normalsFill(index[k], stations)]

\* ------------------------------------------------------------------------
\* Real arithmetic of the cost model: exact fractions n/d (d > 0, lowest
\* terms) and the IEEE specials.  Rounding errors of binary floating point
\* are not modelled.
\* ------------------------------------------------------------------------
RECURSIVE GCD(_, _)
GCD(a, b) == IF b = 0 THEN a ELSE GCD(b, a % b)

Abs(x) == IF x < 0 THEN 0 - x ELSE x
Sign(x) == IF x < 0 THEN -1 ELSE IF x > 0 THEN 1 ELSE 0

Rat(n, d) ==
  LET g == GCD(Abs(n), Abs(d))
      s == IF d < 0 THEN -1 ELSE 1
  IN  [k |-> "fin", n |-> s * (n \div g), d |-> s * (d \div g)]

I(x) == [k |-> "fin", n |-> x, d |-> 1]
Infinity == [k |-> "inf", n |-> 1, d |-> 0]
NegInfinity == [k |-> "inf", n |-> -1, d |-> 0]
NaN == [k |-> "nan", n |-> 0, d |-> 0]
\* null, as returned by calculateHeatPumpEfficiency
NullNum == [k |-> "null", n |-> 0, d |-> 0]

IsFin(a) == a.k = "fin"
SignedInf(s) == IF s < 0 THEN NegInfinity ELSE Infinity

Neg(a) == [a EXCEPT !.n = 0 - a.n]

Mul(a, b) ==
  IF a.k = "nan" \/ b.k = "nan" THEN NaN
  ELSE IF a.k = "inf" \/ b.k = "inf"
       THEN IF a.n = 0 \/ b.n = 0 THEN NaN ELSE SignedInf(Sign(a.n) * Sign(b.n))
  ELSE IF a.n = 0 \/ b.n = 0 THEN I(0)
  ELSE LET g1 == GCD(Abs(a.n), b.d)
           g2 == GCD(Abs(b.n), a.d)
       IN  Rat((a.n \div g1) * (b.n \div g2), (a.d \div g2) * (b.d \div g1))

\* 1 / b for a finite b other than 0
Inverse(b) == IF b.n < 0 THEN [k |-> "fin", n |-> 0 - b.d, d |-> 0 - b.n]
              ELSE [k |-> "fin", n |-> b.d, d |-> b.n]

Div(a, b) ==
  IF a.k = "nan" \/ b.k = "nan" THEN NaN
  ELSE IF a.k = "inf" /\ b.k = "inf" THEN NaN
  ELSE IF a.k = "inf" THEN SignedInf(a.n * (IF b.n < 0 THEN -1 ELSE 1))
  ELSE IF b.k = "inf" THEN I(0)
  ELSE IF b.n = 0 THEN IF a.n = 0 THEN NaN ELSE SignedInf(a.n)
  ELSE Mul(a, Inverse(b))

Add(a, b) ==
  IF a.k = "nan" \/ b.k = "nan" THEN NaN
  ELSE IF a.k = "inf" /\ b.k = "inf" THEN IF a.n = b.n THEN a ELSE NaN
  ELSE IF a.k = "inf" THEN a
  ELSE IF b.k = "inf" THEN b
  ELSE LET g == GCD(a.d, b.d)
       IN  Rat(a.n * (b.d \div g) + b.n * (a.d \div g), (a.d \div g) * b.d)

Sub(a, b) == Add(a, Neg(b))

\* a < b (false when either is NaN)
Less(a, b) ==
  IF a.k = "nan" \/ b.k = "nan" THEN FALSE
  ELSE IF a.k = "inf" THEN a.n < 0 /\ ~(b.k = "inf" /\ b.n < 0)
  ELSE IF b.k = "inf" THEN b.n > 0
  ELSE Sub(a, b).n < 0

LessEq(a, b) == a.k # "nan" /\ b.k # "nan" /\ (a = b \/ Less(a, b))

\* Math.max / Math.min of two numbers (NaN when either is NaN)
MathMax(a, b) == IF a.k = "nan" \/ b.k = "nan" THEN NaN ELSE IF Less(a, b) THEN b ELSE a
MathMin(a, b) == IF a.k = "nan" \/ b.k = "nan" THEN NaN ELSE IF Less(b, a) THEN b ELSE a

\* Math.round: the nearest integer, halves towards +Infinity
MathRound(a) == IF a.k # "fin" THEN a ELSE I((2 * a.n + a.d) \div (2 * a.d))

\* x || dflt for a number x: the default when x is NaN or 0
OrDefault(x, dflt) == IF x.k = "nan" \/ (x.k = "fin" /\ x.n = 0) THEN dflt ELSE x

\* ------------------------------------------------------------------------
\* HVAC cost model
\* ------------------------------------------------------------------------
BaseTemp == 65
DefaultHeatingLoad == 50000
DefaultCoolingLoad == 40000
BtuPerTherm == 100000
BtuPerKWh == 3412
DefaultCrossover == 35

\* a climate field as a number of the cost model (undefined behaves as NaN)
NumOf(x) == IF x = Undefined THEN NaN ELSE I(x)

\* the heat-pump share of the hybrid system used by calculateSystemCosts
heatPumpPercentage(heatingDesign, xover) ==
  IF Less(xover, heatingDesign) THEN I(1)
  ELSE IF Less(Sub(xover, I(15)), heatingDesign) THEN Rat(7, 10)
  ELSE IF Less(Sub(xover, I(25)), heatingDesign) THEN Rat(5, 10)
  ELSE Rat(3, 10)

\* calculateSystemCosts with the design difference taken the other way round
calculateSystemCostsDiffSwapped(systemType, specs, hdd, cdd, heatingDesign, coolingDesign, electricityRate, gasRate, crossoverTemp, loads) ==
  LET designHeatingLoad == IF loads.heating # 0 THEN loads.heating ELSE DefaultHeatingLoad
      designCoolingLoad == IF loads.cooling # 0 THEN loads.cooling ELSE DefaultCoolingLoad
      heatingDesignDiff == Sub(heatingDesign, I(BaseTemp))
      coolingDesignDiff == Sub(coolingDesign, I(BaseTemp))
      heatLossRate == Div(I(designHeatingLoad), heatingDesignDiff)
      annualHeatingLoad == Mul(Mul(heatLossRate, hdd), I(24))
      xover == IF IsFin(crossoverTemp) THEN crossoverTemp ELSE I(DefaultCrossover)
      pct == heatPumpPercentage(heatingDesign, xover)
      heatPumpHeatingLoad == Mul(annualHeatingLoad, pct)
      gasHeatingLoad == Mul(annualHeatingLoad, Sub(I(1), pct))
      annualTherms ==
        CASE systemType = "furnace" -> Div(annualHeatingLoad, Mul(I(BtuPerTherm), specs.furnaceAFUE))
          [] systemType = "heatPump" -> I(0)
          [] systemType = "hybrid" -> Div(gasHeatingLoad, Mul(I(BtuPerTherm), specs.furnaceAFUE))
      annualKWh ==
        CASE systemType = "furnace" -> I(0)
          [] systemType = "heatPump" -> Div(annualHeatingLoad, Mul(specs.cop, I(BtuPerKWh)))
          [] systemType = "hybrid" -> Div(heatPumpHeatingLoad, Mul(specs.cop, I(BtuPerKWh)))
      annualHeatingCost ==
        CASE systemType = "furnace" -> Mul(annualTherms, gasRate)
          [] systemType = "heatPump" -> Mul(annualKWh, electricityRate)
          [] systemType = "hybrid" -> Add(Mul(annualKWh, electricityRate), Mul(annualTherms, gasRate))
      annualCoolingCost == I(0)
      annualEnergyCost == Add(annualHeatingCost, annualCoolingCost)
  IN  [install |-> I(0), energy |-> MathRound(annualEnergyCost), maintenance |-> I(0),
       total |-> MathRound(annualEnergyCost),
       annualTherms |-> annualTherms, annualKWh |-> annualKWh]

\* calculateSystemCosts with the furnace of the hybrid system carrying the
\* whole heating load
calculateSystemCostsGasUnsplit(systemType, specs, hdd, cdd, heatingDesign, coolingDesign, electricityRate, gasRate, crossoverTemp, loads) ==
  LET designHeatingLoad == IF loads.heating # 0 THEN loads.heating ELSE DefaultHeatingLoad
      designCoolingLoad == IF loads.cooling # 0 THEN loads.cooling ELSE DefaultCoolingLoad
      heatingDesignDiff == Sub(I(BaseTemp), heatingDesign)
      coolingDesignDiff == Sub(coolingDesign, I(BaseTemp))
      heatLossRate == Div(I(designHeatingLoad), heatingDesignDiff)
      annualHeatingLoad == Mul(Mul(heatLossRate, hdd), I(24))
      xover == IF IsFin(crossoverTemp) THEN crossoverTemp ELSE I(DefaultCrossover)
      pct == heatPumpPercentage(heatingDesign, xover)
      heatPumpHeatingLoad == Mul(annualHeatingLoad, pct)
      gasHeatingLoad == annualHeatingLoad
      annualTherms ==
        CASE systemType = "furnace" -> Div(annualHeatingLoad, Mul(I(BtuPerTherm), specs.furnaceAFUE))
          [] systemType = "heatPump" -> I(0)
          [] systemType = "hybrid" -> Div(gasHeatingLoad, Mul(I(BtuPerTherm), specs.furnaceAFUE))
      annualKWh ==
        CASE systemType = "furnace" -> I(0)
          [] systemType = "heatPump" -> Div(annualHeatingLoad, Mul(specs.cop, I(BtuPerKWh)))
          [] systemType = "hybrid" -> Div(heatPumpHeatingLoad, Mul(specs.cop, I(BtuPerKWh)))
      annualHeatingCost ==
        CASE systemType = "furnace" -> Mul(annualTherms, gasRate)
          [] systemType = "heatPump" -> Mul(annualKWh, electricityRate)
          [] systemType = "hybrid" -> Add(Mul(annualKWh, electricityRate), Mul(annualTherms, gasRate))
      annualCoolingCost == I(0)
      annualEnergyCost == Add(annualHeatingCost, annualCoolingCost)
  IN  [install |-> I(0), energy |-> MathRound(annualEnergyCost), maintenance |-> I(0),
       total |-> MathRound(annualEnergyCost),
       annualTherms |-> annualTherms, annualKWh |-> annualKWh]

calculateSystemCosts(systemType, specs, hdd, cdd, heatingDesign, coolingDesign, electricityRate, gasRate, crossoverTemp, loads) ==
  LET designHeatingLoad == IF loads.heating # 0 THEN loads.heating ELSE DefaultHeatingLoad
      designCoolingLoad == IF loads.cooling # 0 THEN loads.cooling ELSE DefaultCoolingLoad
      heatingDesignDiff == Sub(I(BaseTemp), heatingDesign)
      coolingDesignDiff == Sub(coolingDesign, I(BaseTemp))
      heatLossRate == Div(I(designHeatingLoad), heatingDesignDiff)
      annualHeatingLoad == Mul(Mul(heatLossRate, hdd), I(24))
      xover == IF IsFin(crossoverTemp) THEN crossoverTemp ELSE I(DefaultCrossover)
      pct == heatPumpPercentage(heatingDesign, xover)
      heatPumpHeatingLoad == Mul(annualHeatingLoad, pct)
      gasHeatingLoad == Mul(annualHeatingLoad, Sub(I(1), pct))
      annualTherms ==
        CASE systemType = "furnace" -> Div(annualHeatingLoad, Mul(I(BtuPerTherm), specs.furnaceAFUE))
          [] systemType = "heatPump" -> I(0)
          [] systemType = "hybrid" -> Div(gasHeatingLoad, Mul(I(BtuPerTherm), specs.furnaceAFUE))
      annualKWh ==
        CASE systemType = "furnace" -> I(0)
          [] systemType = "heatPump" -> Div(annualHeatingLoad, Mul(specs.cop, I(BtuPerKWh)))
          [] systemType = "hybrid" -> Div(heatPumpHeatingLoad, Mul(specs.cop, I(BtuPerKWh)))
      annualHeatingCost ==
        CASE systemType = "furnace" -> Mul(annualTherms, gasRate)
          [] systemType = "heatPump" -> Mul(annualKWh, electricityRate)
          [] systemType = "hybrid" -> Add(Mul(annualKWh, electricityRate), Mul(annualTherms, gasRate))
      annualCoolingCost == I(0)
      annualEnergyCost == Add(annualHeatingCost, annualCoolingCost)
  IN  [install |-> I(0), energy |-> MathRound(annualEnergyCost), maintenance |-> I(0),
       total |-> MathRound(annualEnergyCost),
       annualTherms |-> annualTherms, annualKWh |-> annualKWh]

\* calculateHeatPumpEfficiency with the furnace taking over only strictly
\* below the design temperature
calculateHeatPumpEfficiencyStrict(heatingDesign, crossoverTemp, hdd) ==
  LET totalRange == Sub(I(BaseTemp), heatingDesign)
      hpRange == Sub(I(BaseTemp), crossoverTemp)
  IN  IF hdd.k = "nan" \/ LessEq(hdd, I(0)) THEN NullNum
      ELSE IF LessEq(I(BaseTemp), crossoverTemp) THEN I(1)
      ELSE IF Less(crossoverTemp, heatingDesign) THEN I(0)
      ELSE IF LessEq(totalRange, I(0)) THEN I(0)
      ELSE MathMin(I(1), Div(hpRange, totalRange))

\* the heat-pump share shown to the user
calculateHeatPumpEfficiency(heatingDesign, crossoverTemp, hdd) ==
  LET totalRange == Sub(I(BaseTemp), heatingDesign)
      hpRange == Sub(I(BaseTemp), crossoverTemp)
  IN  IF hdd.k = "nan" \/ LessEq(hdd, I(0)) THEN NullNum
      ELSE IF LessEq(I(BaseTemp), crossoverTemp) THEN I(1)
      ELSE IF LessEq(crossoverTemp, heatingDesign) THEN I(0)
      ELSE IF LessEq(totalRange, I(0)) THEN I(0)
      ELSE MathMin(I(1), Div(hpRange, totalRange))

\* the economic break-even crossover temperature
computeAutoCrossoverTemperature(pricePerKWh, pricePerTherm, furnaceEffPercent, copAt47F) ==
  LET afue == MathMax(Rat(1, 2), MathMin(I(1), Div(OrDefault(furnaceEffPercent, I(95)), I(100))))
      e == MathMax(Rat(1, 100), OrDefault(pricePerKWh, Rat(12, 100)))
      g == MathMax(Rat(1, 100), OrDefault(pricePerTherm, Rat(12, 10)))
      cop47 == MathMax(I(1), OrDefault(copAt47F, Rat(35, 10)))
      cop17 == MathMax(I(1), Sub(cop47, Rat(15, 10)))
      slopePerDeg == Div(Sub(cop17, cop47), I(17 - 47))
      copThreshold == Mul(Mul(Rat(293, 10), afue), Div(e, g))
      t == Add(I(47), Div(Sub(copThreshold, cop47), slopePerDeg))
  IN  IF Less(MathMax(slopePerDeg, Neg(slopePerDeg)), Rat(1, 1000000)) THEN I(35)
      ELSE MathMax(I(0), MathMin(I(70), t))

\* ------------------------------------------------------------------------
\* Degree days estimated from design temperatures
\* ------------------------------------------------------------------------
calculateHDD(heatingDesign) ==
  MathRound(Mul(MathMax(I(0), Sub(I(BaseTemp), I(heatingDesign))), Rat(36525, 100))).n

calculateCDD(coolingDesign) ==
  MathRound(Mul(MathMax(I(0), Sub(I(coolingDesign), I(BaseTemp))), Rat(36525, 100))).n

\* no entry has been normalized
NoNorm == [entry |-> Absent, fipsInfo |-> Absent, once |-> Absent, twice |-> Absent]

\* no break-even crossover has been computed
NoAuto ==
  [pricePerKWh |-> NaN, pricePerTherm |-> NaN, furnaceEffPercent |-> NaN, copAt47F |-> NaN,
   slope |-> NaN, result |-> NullNum]

\* no scan has been made
NoScan == [fn |-> "none", lat |-> Undefined, lon |-> Undefined, cands |-> <<>>, result |-> Absent]

\* no estimate has been made
NoEstimate ==
  [heating |-> Undefined, cooling |-> Undefined, hdd |-> Undefined, cdd |-> Undefined]

\* the test cases of testDegreeDayCalculations
ReferenceCities ==
  { [city |-> "Miami", heating |-> 48, cooling |-> 89, expectedHDD |-> 200, expectedCDD |-> 3500],
    [city |-> "Denver", heating |-> 7, cooling |-> 90, expectedHDD |-> 6000, expectedCDD |-> 800],
    [city |-> "New York", heating |-> 18, cooling |-> 88, expectedHDD |-> 5000,
     expectedCDD |-> 1200] }

\* the differences that testDegreeDayCalculations lets pass
HddTolerance == 500
CddTolerance == 200

\* ------------------------------------------------------------------------
\* Bounds and inputs of the model
\* ------------------------------------------------------------------------
\* number of lookups started in a session (they may all overlap)
MaxLookups == 2

\* texts typed into the zipCode field
ZipInputs ==
  { <<"3","3","1","0","1"," ">>,      \* in RESNET_ASHRAE_DATA, trailing blank
    <<"0","1","0","0","1">>,          \* only in LOCAL_RESNET_FALLBACK
    <<"9","7","2","1","9">>,          \* in no static table, in ZIP_TO_FIPS_OVERRIDE
    <<"1","2","3">> }                 \* too short

\* results of getLocationFromZip: coordinates, NaN when the service returns
\* places without usable coordinates
Locations ==
  { [latitude |-> 45450, longitude |-> -122700],
    [latitude |-> Undefined, longitude |-> Undefined] }

\* results of getCountyFIPS (countyFIPS <<>> stands for null)
FipsInfos ==
  { [countyFIPS |-> <<"4","1","0","5","1">>, countyName |-> <<"Multnomah">>, stateAbbr |-> <<"OR">>],
    [countyFIPS |-> <<"4","1","0","0","5">>, countyName |-> <<"Clackamas">>, stateAbbr |-> <<"OR">>],
    [countyFIPS |-> <<>>, countyName |-> <<"Unknown County">>, stateAbbr |-> <<>>] }

\* bodies of noaa_climate_database.json (NotFound: the response is not ok)
StationPdx ==
  [t |-> "entry", name |-> <<"PORTLAND INTL AP">>, latitude |-> 45590, longitude |-> -122600,
   hdd |-> 4200, cdd |-> 450]
StationNoHdd ==
  [t |-> "entry", station_id |-> <<"USC00356750">>, latitude |-> 45450, longitude |-> -122700,
   cdd |-> 500]

StationFiles ==
  { NotFound,
    [t |-> "arr", items |-> <<StationPdx>>],
    [t |-> "arr", items |-> <<StationNoHdd, StationPdx>>],
    [t |-> "map", kv |-> <<>>] }

\* files offered to the preload of the lookup specification
\* (the first JSON file parsing to null stops the search of a second one)
PreloadJsonFiles == { <<NotFound, NotFound>>, <<FalsyScalar, NotFound>> }
PreloadCsvFiles ==
  { NotFound,
    [header |-> <<"fips", "name", "heating", "hdd">>, rows |-> <<>>],
    [header |-> <<"county", "heating", "hdd">>,
     rows |-> << << <<"4","1","0","0","5">>, <<"2","2">>, <<"4","3","0","0">> >> >>],
    [header |-> <<"fips", "name", "heating", "hdd">>,
     rows |-> << << <<"4","1","0","0","5">>, <<"C","l","a","c","k","a","m","a","s">>,
                    <<"6","5">>, <<"n","/","a">> >> >>],
    [header |-> <<"fips", "name", "heating", "hdd">>,
     rows |-> << << <<"4","1","0","0","5">>, <<"C","l","a","c","k","a","m","a","s">>,
                    <<"n","/","a">>, <<"4","3","0","0">> >> >>] }
PreloadNormalsFiles ==
  { NotFound,
    [header |-> <<"station_id", "longitude", "hdd">>,
     rows |-> << << <<"U","S","W","1">>, <<"-","1","2","2","6","0","0">>, <<"4","2","0","0">> >> >>],
    [header |-> <<"station_id", "latitude", "longitude", "hdd">>,
     rows |-> << << <<"U","S","W","1">>, <<"n","/","a">>, <<"n","/","a">>,
                    <<"4","2","0","0">> >> >>] }

\* values of the equipment inputs (NaN: an empty or non-numeric field)
InitialInputs ==
  [electricityRate |-> NaN, gasRate |-> NaN, heatPumpCOP |-> NaN, furnaceEfficiency |-> NaN,
   crossoverTemp |-> NaN, autoCrossover |-> FALSE, heatingLoadInput |-> 8530]

InputConfigs ==
  { InitialInputs,
    [electricityRate |-> Rat(30, 100), gasRate |-> Rat(12, 10), heatPumpCOP |-> I(3),
     furnaceEfficiency |-> I(80), crossoverTemp |-> I(20), autoCrossover |-> FALSE,
     heatingLoadInput |-> 8530],
    [electricityRate |-> Rat(12, 100), gasRate |-> Rat(12, 10), heatPumpCOP |-> Rat(35, 10),
     furnaceEfficiency |-> I(95), crossoverTemp |-> I(35), autoCrossover |-> TRUE,
     heatingLoadInput |-> 8530] }

\* values of the heating load input, in BTU/hr.  They are small multiples of
\* 853 (a factor of 3412 BTU per kWh) so that the exact fractions of the cost
\* model stay within the 32-bit integers of the model checker.
HeatingLoadInputs == {8530, 12795}

\* ------------------------------------------------------------------------
\* State
\* ------------------------------------------------------------------------
VARIABLES
  climateData,          \* the published climate record, Absent for null
  countyAshraeData,     \* the county index: FIPS -> entry
  RESNET_ASHRAE_DATA,   \* the static ZIP table (its entries are shared objects)
  NOAA_STATIONS_DB,     \* [loaded, list]: loaded = FALSE for null
  houseLoads,           \* { heating, cooling }
  maxCost,
  inputs,               \* values of the input elements of the page
  dom,                  \* what the page shows
  protocol,             \* location.protocol
  startup,              \* position of the DOMContentLoaded preload
  lookups,              \* the calls of lookupClimateData: locals and position
  last,                 \* the call that returned most recently, with its locals
  fetches,              \* number of fetches of noaa_climate_database.json
  sources,              \* what became of each optional file: pending, failed, read
  estimate,             \* degree days last estimated from design temperatures
  scan,                 \* the last nearest-match scan: its arguments and what it returned
  auto,                 \* the last break-even crossover computed: its arguments and result
  norm                  \* the last entry normalized: the entry, the record, the record again

vars == <<climateData, countyAshraeData, RESNET_ASHRAE_DATA, NOAA_STATIONS_DB, houseLoads,
          maxCost, inputs, dom, protocol, startup, lookups, last, fetches, sources, estimate, scan, auto, norm>>

LookupIds == 1..MaxLookups

\* the optional files: the external county JSON, the external county CSV,
\* the NOAA normals CSV and the station database
SourceNames == {"json", "csv", "normals", "stations"}

\* a call of lookupClimateData that has not been made yet.  calls, stages,
\* fipsKey, enriched, error and outcome record what the call did, failed
\* records which of its resolvers answered with a failure.
IdleLookup ==
  [pc |-> "idle", zipCode |-> <<>>, locationData |-> Absent, fipsInfo |-> Absent,
   normalized |-> Absent, enriched |-> Absent, fipsKey |-> <<>>,
   calls |-> {}, stages |-> {}, failed |-> {}, error |-> NoError, outcome |-> "none"]

\* a call that has returned
DoneLookup == [IdleLookup EXCEPT !.pc = "done"]

\* ------------------------------------------------------------------------
\* Page helpers
\* ------------------------------------------------------------------------
showLoading(d) == [d EXCEPT !.loadingSection = TRUE, !.lookupBtnDisabled = TRUE]
hideLoading(d) == [d EXCEPT !.loadingSection = FALSE, !.lookupBtnDisabled = FALSE]
showError(d, message) == [d EXCEPT !.errorSection = message]
hideError(d) == [d EXCEPT !.errorSection = NoError]
hideResults(d) == [d EXCEPT !.locationInfo = Absent]

\* updateHeatingLoad: the house loads read from the heating load input
updateHeatingLoad(inp) ==
  [heating |-> inp.heatingLoadInput, cooling |-> (inp.heatingLoadInput * 8 + 5) \div 10]

\* the integrity check of displayClimateData
DisplayableRecord(cd) ==
  cd # Absent /\ NumberIsFinite(cd.heating) /\ NumberIsFinite(cd.hdd)

displayClimateData(cd, d) ==
  IF ~DisplayableRecord(cd) THEN showError(d, MsgInvalidData)
  ELSE [d EXCEPT !.locationInfo = [name |-> cd.name, source |-> cd.source,
                                   heating |-> cd.heating, cooling |-> cd.cooling]]

\* calculateHVACCosts, in three steps.  Each step hands the values it has
\* computed to the next one as parameters.
\*
\* Last step: maxCost, the write-back of the crossover input in automatic
\* mode, and the share passed to the hybrid split bar.
costsSummary(inp, hdd, heatingDesign, crossoverTemp, results) ==
  [crossoverTemp |-> crossoverTemp,
   crossoverInput |-> IF inp.autoCrossover THEN crossoverTemp ELSE inp.crossoverTemp,
   results |-> results,
   maxCost |-> MathMax(MathMax(results["heatPump"].total, results["furnace"].total),
                       results["hybrid"].total),
   hpEff |-> calculateHeatPumpEfficiency(heatingDesign, crossoverTemp, hdd)]

\* Middle step: the costs of the three systems at the crossover temperature
costsAtCrossover(inp, loads, hdd, cdd, heatingDesign, coolingDesign, electricityRate, gasRate, heatPumpCOP, furnaceEfficiency, crossoverTemp) ==
  costsSummary(inp, hdd, heatingDesign, crossoverTemp,
    [systemType \in {"heatPump", "furnace", "hybrid"} |->
       calculateSystemCosts(systemType,
                            [cop |-> heatPumpCOP, furnaceAFUE |-> Div(furnaceEfficiency, I(100))],
                            hdd, cdd, heatingDesign, coolingDesign,
                            electricityRate, gasRate, crossoverTemp, loads)])

\* First step: the crossover temperature, typed or automatic
costsWithRates(inp, loads, hdd, cdd, heatingDesign, coolingDesign, electricityRate, gasRate, heatPumpCOP, furnaceEfficiency) ==
  costsAtCrossover(inp, loads, hdd, cdd, heatingDesign, coolingDesign,
                   electricityRate, gasRate, heatPumpCOP, furnaceEfficiency,
    IF inp.autoCrossover
    THEN MathMax(I(20), MathMin(I(50), MathRound(
           computeAutoCrossoverTemperature(electricityRate, gasRate, furnaceEfficiency, heatPumpCOP))))
    ELSE IF IsFin(inp.crossoverTemp) THEN inp.crossoverTemp ELSE I(DefaultCrossover))

\* calculateHVACCosts: the values it reads from climateData and the page
calculateHVACCosts(cd, inp, loads) ==
  costsWithRates(inp, loads,
                 NumOf(cd.hdd),
                 IF NumberIsFinite(cd.cdd) THEN I(cd.cdd) ELSE I(0),
                 NumOf(cd.heating),
                 IF NumberIsFinite(cd.cooling) THEN I(cd.cooling) ELSE I(0),
                 OrDefault(inp.electricityRate, Rat(12, 100)),
                 OrDefault(inp.gasRate, Rat(120, 100)),
                 OrDefault(inp.heatPumpCOP, Rat(35, 10)),
                 OrDefault(inp.furnaceEfficiency, I(95)))

showCosts(d, calc, inp) ==
  [d EXCEPT !.results = calc.results, !.hybridSplit = calc.hpEff,
            !.crossoverDisabled = inp.autoCrossover]

\* ------------------------------------------------------------------------
\* The resolver chain: pure steps of lookupClimateData
\* ------------------------------------------------------------------------
\* zipCode is missing or not five characters long
InvalidZip(zipCode) == zipCode = <<>> \/ Len(zipCode) # 5

\* STEP 1: zr = RESNET_ASHRAE_DATA[zipCode] || LOCAL_RESNET_FALLBACK[zipCode]
staticEntry(data, zipCode) ==
  IF Truthy(Get(data, zipCode)) THEN data[zipCode] ELSE Get(LOCAL_RESNET_FALLBACK, zipCode)

\* A faulty stage 1 that consults the primary table only and forgets
\* LOCAL_RESNET_FALLBACK
stage1HitPrimaryOnly(data, zipCode) ==
  LET zr == Get(data, zipCode)
  IN  Truthy(zr) /\ \A k \in {"heating", "cooling", "hdd", "cdd"} :
                       NumberIsFinite(ToNumber(Field(zr, k)))

\* zr is there and its heating, cooling, hdd and cdd are all finite
stage1Hit(data, zipCode) ==
  LET zr == staticEntry(data, zipCode)
  IN  Truthy(zr) /\ \A k \in {"heating", "cooling", "hdd", "cdd"} :
                       NumberIsFinite(ToNumber(Field(zr, k)))

stage1Record(data, zipCode) ==
  LET zr == staticEntry(data, zipCode)
  IN  [name |-> IF TextField(zr, "name") # <<>> THEN zr.name ELSE <<"ZIP ">> \o zipCode,
       heating |-> ToNumber(zr.heating), cooling |-> ToNumber(zr.cooling),
       hdd |-> ToNumber(zr.hdd), cdd |-> ToNumber(zr.cdd),
       source |-> IF TextField(zr, "source") # <<>>
                  THEN <<"RESNET/ASHRAE ZIP ">> \o zipCode \o <<" - ">> \o zr.source
                  ELSE <<"RESNET/ASHRAE ZIP ">> \o zipCode,
       lat |-> ToNumber(Field(zr, "lat")), lon |-> ToNumber(Field(zr, "lon"))]

\* A faulty guard that lets every lookup go on to the network
offlineGuardNever(proto) == FALSE

\* the guard that stops a lookup on a page opened from a local file
offlineGuard(proto) == proto = "file:"

\* the key with which the county index is read
countyKey(zipCode, fipsInfo) == fipsInfo.countyFIPS

\* a county lookup that takes whatever is stored under the key, entry or not
countyLookupKeyPresent(index, data, key, loc) ==
  LET nearestKey == findNearestResnetStation(data, loc.latitude, loc.longitude)
      marked == [data EXCEPT ![nearestKey].source =
                   <<"Nearest RESNET Station: ">> \o TextField(data[nearestKey], "name")]
  IN  IF key \in DOMAIN index THEN [entry |-> index[key], resnet |-> data, stage |-> "dataset"]
      ELSE IF nearestKey # <<>>
           THEN [entry |-> marked[nearestKey], resnet |-> marked, stage |-> "nearest"]
           ELSE [entry |-> Absent, resnet |-> data, stage |-> "nearest"]

\* the county entry for the key, or else the nearest static entry with its
\* source overwritten.  resnet: the static table afterwards; entry: Absent
\* when both fail.
countyLookup(index, data, key, loc) ==
  LET countyEntry == Get(index, key)
      nearestKey == findNearestResnetStation(data, loc.latitude, loc.longitude)
      marked == [data EXCEPT ![nearestKey].source =
                   <<"Nearest RESNET Station: ">> \o TextField(data[nearestKey], "name")]
  IN  IF Truthy(countyEntry) THEN [entry |-> countyEntry, resnet |-> data, stage |-> "dataset"]
      ELSE IF nearestKey # <<>>
           THEN [entry |-> marked[nearestKey], resnet |-> marked, stage |-> "nearest"]
           ELSE [entry |-> Absent, resnet |-> data, stage |-> "nearest"]

\* STEP 2b: the degree-day merge from the nearest NOAA station
enrichFromStations(normalized, loc, stations) ==
  LET nearest == findNearestNoaaStation(loc.latitude, loc.longitude, stations)
      hdd == ToNumber(Field(nearest.station, "hdd"))
      cdd == ToNumber(Field(nearest.station, "cdd"))
      nearestName == IF TextField(nearest.station, "name") # <<>> THEN nearest.station.name
                     ELSE IF TextField(nearest.station, "station_id") # <<>>
                          THEN nearest.station.station_id
                          ELSE <<"NOAA Station">>
      note == <<"NOAA Normals 2006-2020 (nearest: ">> \o nearestName \o <<")">>
  IN  IF Len(stations) = 0 \/ nearest = Absent THEN normalized
      ELSE [normalized EXCEPT
              !.hdd = IF NumberIsFinite(hdd) THEN hdd ELSE @,
              !.cdd = IF NumberIsFinite(cdd) THEN cdd ELSE @,
              !.source = IF @ # <<>> THEN @ \o <<" + ">> \o note ELSE note]

\* A faulty check that accepts a record without degree days
hddCompleteAlways(normalized) == TRUE

\* the two completeness checks of the chain
heatingComplete(normalized) == NumberIsFinite(normalized.heating)
hddComplete(normalized) == NumberIsFinite(normalized.hdd)

\* loadNoaaStationsDb settles for an empty list: the response is not ok,
\* its body does not parse, or it is not an array
stationsUnread(file) == file = NotFound \/ file.t # "arr"

\* the body of loadNoaaStationsDb after its fetch
stationsFromResponse(file) ==
  IF file = NotFound THEN <<>>
  ELSE IF file.t = "arr" THEN file.items ELSE <<>>

\* A faulty handler that goes on to the county resolver whatever the
\* location resolver answered
afterLocationAlways(ok) == "awaitCounty"

\* what the lookup does when the location resolver answers
afterLocation(ok) == IF ok THEN "awaitCounty" ELSE "failed"
\* what the lookup does when the county resolver answers
afterCounty(ok) == IF ok THEN "resolve" ELSE "failed"

\* ------------------------------------------------------------------------
\* Initial state: the page after the synchronous part of DOMContentLoaded
\* ------------------------------------------------------------------------
\* the page as loaded: no error, no record, no costs on display
InitialDom ==
  [errorSection |-> NoError, loadingSection |-> FALSE, lookupBtnDisabled |-> FALSE,
   locationInfo |-> Absent, results |-> Absent, hybridSplit |-> NullNum,
   crossoverDisabled |-> FALSE]

Init ==
  /\ climateData = Absent
  /\ countyAshraeData = buildCountyFipsIndex(ASHRAE_COUNTY_DATA)
  /\ RESNET_ASHRAE_DATA = RESNET_ASHRAE_DATA_INITIAL
  /\ NOAA_STATIONS_DB = [loaded |-> FALSE, list |-> <<>>]
  /\ houseLoads = updateHeatingLoad(InitialInputs)
  /\ maxCost = I(0)
  /\ inputs = InitialInputs
  /\ dom = InitialDom
  /\ protocol \in {"file:", "http:"}
  /\ startup = IF protocol = "file:" THEN "done" ELSE "json"
  /\ lookups = [i \in LookupIds |-> IdleLookup]
  /\ last = IdleLookup
  /\ fetches = 0
  /\ sources = [s \in SourceNames |-> "pending"]
  /\ estimate = NoEstimate
  /\ scan = NoScan
  /\ auto = NoAuto
  /\ norm = NoNorm

\* ------------------------------------------------------------------------
\* Actions
\* ------------------------------------------------------------------------
\* the assignments of a publication, given the house loads and the costs
\* a publication that keeps a record already published
publishStateFirstWins(cd, shown, network, loads, calc) ==
  /\ climateData' = IF climateData = Absent THEN cd ELSE climateData
  /\ houseLoads' = loads
  /\ maxCost' = calc.maxCost
  /\ inputs' = [inputs EXCEPT !.crossoverTemp = calc.crossoverInput]
  /\ dom' = hideLoading(IF network THEN hideError(showCosts(shown, calc, inputs))
                                   ELSE showCosts(shown, calc, inputs))

publishState(cd, shown, network, loads, calc) ==
  /\ climateData' = cd
  /\ houseLoads' = loads
  /\ maxCost' = calc.maxCost
  /\ inputs' = [inputs EXCEPT !.crossoverTemp = calc.crossoverInput]
  /\ dom' = hideLoading(IF network THEN hideError(showCosts(shown, calc, inputs))
                                   ELSE showCosts(shown, calc, inputs))

\* calculateHVACCosts() with the house loads left by displayClimateData()
publishCosts(cd, d, network, loads) ==
  publishState(cd, displayClimateData(cd, d), network, loads,
               calculateHVACCosts(cd, inputs, loads))

\* climateData = cd; displayClimateData(), which calls updateHeatingLoad()
\* for a record it accepts; calculateHVACCosts(); then hideError() on the
\* network path; hideLoading()
Publish(cd, d, network) ==
  publishCosts(cd, d, network,
               IF DisplayableRecord(cd) THEN updateHeatingLoad(inputs) ELSE houseLoads)

\* a faulty failure path that also forgets the record published before
FailClearing(d) ==
  /\ dom' = hideLoading(showError(d, MsgNoData))
  /\ climateData' = Absent
  /\ UNCHANGED <<houseLoads, maxCost, inputs>>

\* catch: showError; finally: hideLoading
Fail(d) ==
  /\ dom' = hideLoading(showError(d, MsgNoData))
  /\ UNCHANGED <<climateData, houseLoads, maxCost, inputs>>

\* the call goes on to its next await with the locals l
Continue(i, l) ==
  /\ lookups' = [lookups EXCEPT ![i] = l]
  /\ UNCHANGED last

\* the call returns: its locals are gone, last keeps them and what it did
Return(i, l) ==
  /\ lookups' = [lookups EXCEPT ![i] = DoneLookup]
  /\ last' = [l EXCEPT !.pc = "done"]

\* the calls whose locals are at hand: those in flight and the last one over
Calls == {lookups[i] : i \in LookupIds} \cup {last}

\* lookupClimateData up to its first await
Start(i, raw) ==
  LET l == lookups[i]
      zipCode == trim(raw)
      d == hideResults(hideError(showLoading(dom)))
  IN  /\ l.pc = "idle"
      /\ (IF i = 1 THEN TRUE ELSE lookups[i - 1].pc # "idle")
      /\ UNCHANGED <<countyAshraeData, RESNET_ASHRAE_DATA, NOAA_STATIONS_DB, protocol, startup, fetches, sources, estimate, scan, auto, norm>>
      /\ IF InvalidZip(zipCode)
         THEN /\ dom' = showError(dom, MsgInvalidZip)
              /\ Return(i, [l EXCEPT !.zipCode = zipCode, !.error = MsgInvalidZip,
                                     !.outcome = "invalid"])
              /\ UNCHANGED <<climateData, houseLoads, maxCost, inputs>>
         ELSE IF stage1Hit(RESNET_ASHRAE_DATA, zipCode)
         THEN /\ Publish(stage1Record(RESNET_ASHRAE_DATA, zipCode), d, FALSE)
              /\ Return(i, [l EXCEPT !.zipCode = zipCode, !.stages = {"stage1"},
                                     !.enriched = stage1Record(RESNET_ASHRAE_DATA, zipCode),
                                     !.outcome = "published"])
         ELSE IF offlineGuard(protocol)
         THEN /\ dom' = hideLoading(showError(d, MsgNeedsNetwork))
              /\ Return(i, [l EXCEPT !.zipCode = zipCode, !.stages = {"stage1", "guard"},
                                     !.error = MsgNeedsNetwork, !.outcome = "needsNetwork"])
              /\ UNCHANGED <<climateData, houseLoads, maxCost, inputs>>
         ELSE /\ dom' = d
              /\ Continue(i, [l EXCEPT !.pc = "awaitLocation", !.zipCode = zipCode,
                                       !.stages = {"stage1", "guard", "location"},
                                       !.calls = {"location"}])
              /\ UNCHANGED <<climateData, houseLoads, maxCost, inputs>>

\* the rest of the chain once the station list is at hand
Finish(i, l, stations) ==
  LET enriched == enrichFromStations(l.normalized, l.locationData, stations)
      done == [l EXCEPT !.enriched = enriched, !.stages = @ \cup {"enrich"}]
  IN  IF hddComplete(enriched)
      THEN /\ Publish(enriched, dom, TRUE)
           /\ Return(i, [done EXCEPT !.outcome = "published"])
      ELSE /\ Fail(dom)
           /\ Return(i, [done EXCEPT !.outcome = "missingHdd", !.error = MsgNoData])

\* getLocationFromZip answers
LocationResponse(i, ok, loc) ==
  LET l == [lookups[i] EXCEPT !.failed = IF ok THEN @ ELSE @ \cup {"location"}]
  IN  /\ l.pc = "awaitLocation"
      /\ UNCHANGED <<countyAshraeData, RESNET_ASHRAE_DATA, NOAA_STATIONS_DB, protocol, startup, fetches, sources, estimate, scan, auto, norm>>
      /\ IF afterLocation(ok) = "awaitCounty"
         THEN /\ Continue(i, [l EXCEPT !.pc = "awaitCounty", !.locationData = loc,
                                       !.stages = @ \cup {"county"},
                                       !.calls = @ \cup {"county"}])
              /\ UNCHANGED <<climateData, houseLoads, maxCost, inputs, dom>>
         ELSE /\ Fail(dom)
              /\ Return(i, [l EXCEPT !.error = MsgNoData, !.outcome = "locationFailed"])

\* getCountyFIPS answers; the chain runs on to the await of loadNoaaStationsDb
CountyResponse(i, ok, fipsInfo) ==
  LET l == [lookups[i] EXCEPT !.failed = IF ok THEN @ ELSE @ \cup {"county"}]
      key == countyKey(l.zipCode, fipsInfo)
      found == countyLookup(countyAshraeData, RESNET_ASHRAE_DATA, key, l.locationData)
      normalized == normalizeCountyEntry(found.entry, fipsInfo)
      l1 == [l EXCEPT !.fipsInfo = fipsInfo, !.fipsKey = key, !.stages = @ \cup {found.stage}]
      l2 == [l1 EXCEPT !.normalized = normalized, !.stages = @ \cup {"normalize"}]
  IN  /\ l.pc = "awaitCounty"
      /\ UNCHANGED <<countyAshraeData, protocol, startup, sources, estimate, scan, auto, norm>>
      /\ IF afterCounty(ok) = "failed"
         THEN /\ Fail(dom)
              /\ Return(i, [l EXCEPT !.error = MsgNoData, !.outcome = "countyFailed"])
              /\ UNCHANGED <<RESNET_ASHRAE_DATA, NOAA_STATIONS_DB, fetches>>
         ELSE /\ RESNET_ASHRAE_DATA' = found.resnet
              /\ IF ~Truthy(found.entry)
                 THEN /\ Fail(dom)
                      /\ Return(i, [l1 EXCEPT !.error = MsgNoData, !.outcome = "noData"])
                      /\ UNCHANGED <<NOAA_STATIONS_DB, fetches>>
                 ELSE IF ~heatingComplete(normalized)
                 THEN /\ Fail(dom)
                      /\ Return(i, [l2 EXCEPT !.error = MsgNoData, !.outcome = "missingHeating"])
                      /\ UNCHANGED <<NOAA_STATIONS_DB, fetches>>
                 ELSE IF NOAA_STATIONS_DB.loaded
                 THEN /\ Finish(i, l2, NOAA_STATIONS_DB.list)
                      /\ UNCHANGED <<NOAA_STATIONS_DB, fetches>>
                 ELSE /\ Continue(i, [l2 EXCEPT !.pc = "awaitStations",
                                                !.calls = @ \cup {"stations"}])
                      /\ fetches' = fetches + 1
                      /\ UNCHANGED <<NOAA_STATIONS_DB, climateData, houseLoads, maxCost, inputs, dom>>

\* the fetch made by loadNoaaStationsDb answers
StationsResponse(i, file) ==
  LET l == lookups[i]
      list == stationsFromResponse(file)
  IN  /\ l.pc = "awaitStations"
      /\ NOAA_STATIONS_DB' = [loaded |-> TRUE, list |-> list]
      /\ sources' = [sources EXCEPT !["stations"] = IF stationsUnread(file) THEN "failed" ELSE "read"]
      /\ Finish(i, l, list)
      /\ UNCHANGED <<countyAshraeData, RESNET_ASHRAE_DATA, protocol, startup, fetches, estimate, scan, auto, norm>>

\* calculateHVACCosts() called by recalculateIfDataAvailable
recalculate(inp, calc) ==
  /\ inputs' = [inp EXCEPT !.crossoverTemp = calc.crossoverInput]
  /\ maxCost' = calc.maxCost
  /\ dom' = showCosts(dom, calc, inp)

\* an equipment input changes: recalculateIfDataAvailable
ChangeInput(cfg) ==
  LET inp == [cfg EXCEPT !.heatingLoadInput = inputs.heatingLoadInput]
  IN  /\ inp # inputs
      /\ IF climateData # Absent
         THEN recalculate(inp, calculateHVACCosts(climateData, inp, houseLoads))
         ELSE /\ inputs' = inp
              /\ UNCHANGED <<maxCost, dom>>
      /\ UNCHANGED <<climateData, countyAshraeData, RESNET_ASHRAE_DATA, NOAA_STATIONS_DB,
                     houseLoads, protocol, startup, lookups, last, fetches, sources, estimate, scan, auto, norm>>

\* the heating load input changes: updateHeatingLoad
ChangeHeatingLoad(v) ==
  /\ v # inputs.heatingLoadInput
  /\ inputs' = [inputs EXCEPT !.heatingLoadInput = v]
  /\ houseLoads' = updateHeatingLoad(inputs')
  /\ UNCHANGED <<climateData, countyAshraeData, RESNET_ASHRAE_DATA, NOAA_STATIONS_DB, maxCost,
                 dom, protocol, startup, lookups, last, fetches, sources, estimate, scan, auto, norm>>

\* the three merges of the preload, in their order
tryLoadExternalCountyJson(files) ==
  /\ startup = "json"
  /\ countyAshraeData' = JsonMerge(countyAshraeData, files)
  /\ startup' = "csv"
  /\ UNCHANGED <<climateData, RESNET_ASHRAE_DATA, NOAA_STATIONS_DB, houseLoads, maxCost, inputs,
                 dom, protocol, lookups, last, fetches, estimate, scan, auto, norm>>
  /\ sources' = [sources EXCEPT !["json"] = IF jsonUnread(files) THEN "failed" ELSE "read"]

tryLoadExternalCountyCsv(file) ==
  /\ startup = "csv"
  /\ countyAshraeData' = CsvMerge(countyAshraeData, file)
  /\ startup' = "normals"
  /\ UNCHANGED <<climateData, RESNET_ASHRAE_DATA, NOAA_STATIONS_DB, houseLoads, maxCost, inputs,
                 dom, protocol, lookups, last, fetches, estimate, scan, auto, norm>>
  /\ sources' = [sources EXCEPT !["csv"] = IF csvUnread(file) THEN "failed" ELSE "read"]

tryMergeNoaaNormalsHddCdd(file) ==
  /\ startup = "normals"
  /\ countyAshraeData' = NormalsMerge(countyAshraeData, file)
  /\ startup' = "done"
  /\ UNCHANGED <<climateData, RESNET_ASHRAE_DATA, NOAA_STATIONS_DB, houseLoads, maxCost, inputs,
                 dom, protocol, lookups, last, fetches, estimate, scan, auto, norm>>
  /\ sources' = [sources EXCEPT !["normals"] = IF normalsUnread(file) THEN "failed" ELSE "read"]

Next ==
  \/ \E i \in LookupIds, raw \in ZipInputs : Start(i, raw)
  \/ \E i \in LookupIds, loc \in Locations : LocationResponse(i, TRUE, loc)
  \/ \E i \in LookupIds : LocationResponse(i, FALSE, Absent)
  \/ \E i \in LookupIds, f \in FipsInfos : CountyResponse(i, TRUE, f)
  \/ \E i \in LookupIds : CountyResponse(i, FALSE, Absent)
  \/ \E i \in LookupIds, file \in StationFiles : StationsResponse(i, file)
  \/ \E files \in PreloadJsonFiles : tryLoadExternalCountyJson(files)
  \/ \E file \in PreloadCsvFiles : tryLoadExternalCountyCsv(file)
  \/ \E file \in PreloadNormalsFiles : tryMergeNoaaNormalsHddCdd(file)

\* Lookups and the preload, with the equipment inputs left at their defaults
Spec == Init /\ [][Next]_vars

\* The same with the user editing the inputs of the page
NextPage ==
  \/ Next
  \/ \E cfg \in InputConfigs : ChangeInput(cfg)
  \/ \E v \in HeatingLoadInputs : ChangeHeatingLoad(v)

SpecPage == Init /\ [][NextPage]_vars

\* ------------------------------------------------------------------------
\* The startup merges on their own, with files of many shapes
\* ------------------------------------------------------------------------
JsonEntryNoFips == [t |-> "entry", name |-> <<"Test County">>, heating |-> 10, hdd |-> 5000]
JsonEntryClackamas ==
  [t |-> "entry", name |-> <<"Clackamas County, OR">>, fips |-> <<"4","1","0","0","5">>,
   heating |-> 22, lat |-> 45410, lon |-> -122570]
JsonEntryClackamasHdd ==
  [t |-> "entry", name |-> <<"Clackamas County, OR">>, fips |-> <<"4","1","0","0","5">>,
   heating |-> 22, hdd |-> 4400, lat |-> 45410, lon |-> -122570]
JsonEntryShasta ==
  [t |-> "entry", fips |-> <<"6","0","8","9">>, heating |-> 25, hdd |-> 3000, cdd |-> 2500]

\* keys and values of the one-member objects offered as external JSON
MergeJsonKeys ==
  { <<"1","2","3","4","5">>, <<"4","1","0","5","1">>, <<"n","o","t","e">> }
MergeJsonValues ==
  { FalsyScalar, TruthyScalar, JsonEntryNoFips, JsonEntryClackamas, JsonEntryClackamasHdd,
    JsonEntryShasta }

MergeJsonNodes ==
  { [t |-> "map", kv |-> << <<k, v>> >>] : k \in MergeJsonKeys, v \in MergeJsonValues }
  \cup { [t |-> "arr", items |-> <<JsonEntryClackamas, JsonEntryShasta>>] }

\* HVAC_Design_Temps_FULL.json and ashrae_county_data.json
MergeJsonFiles ==
  { <<NotFound, NotFound>> }
  \cup { <<n, NotFound>> : n \in MergeJsonNodes }
  \cup { <<NotFound, n>> : n \in MergeJsonNodes }

\* ashrae_county_data.csv: one or two rows under the header fips,heating,hdd
MergeCsvRows ==
  { << <<"1","2","3","4","5">>, <<"3","0">>, <<"5","0","0","0">> >>,
    << <<"1","2","3","4","5">>, <<"4","0">>, <<"6","0","0","0">> >>,
    << <<"4","1","0","5","1">>, <<"9","9">>, <<"1">> >>,
    << <<"6","0","8","9">>, <<"2","0">>, <<"3","0","0","0">> >>,
    << <<" ","9","7">>, <<"1","0">>, <<"n","/","a">> >> }

MergeCsvFiles ==
  { NotFound }
  \cup { [header |-> <<"fips", "heating", "hdd">>, rows |-> <<r>>] : r \in MergeCsvRows }
  \cup { [header |-> <<"fips", "heating", "hdd">>, rows |-> <<r1, r2>>] :
           r1 \in MergeCsvRows, r2 \in MergeCsvRows }

\* noaa_normals_hdd_cdd_1991_2020.csv
MergeNormalsFiles ==
  { NotFound,
    [header |-> <<"station_id", "latitude", "longitude", "hdd">>,
     rows |-> << << <<"U","S","W","1">>, <<"4","5","5","9","0">>,
                    <<"-","1","2","2","6","0","0">>, <<"4","2","0","0">> >> >>] }

\* the page served over http, before its preload
InitMerge ==
  /\ Init
  /\ protocol = "http:"

NextMerge ==
  \/ \E files \in MergeJsonFiles : tryLoadExternalCountyJson(files)
  \/ \E file \in MergeCsvFiles : tryLoadExternalCountyCsv(file)
  \/ \E file \in MergeNormalsFiles : tryMergeNoaaNormalsHddCdd(file)

SpecMerge == InitMerge /\ [][NextMerge]_vars

\* ------------------------------------------------------------------------
\* The cost model on its own: a record is on display and the user edits the
\* equipment inputs and the heating load
\* ------------------------------------------------------------------------
\* records a lookup can publish: heating and hdd are finite on all of them
CostRecords ==
  { [name |-> <<"MIAMI, FL">>, heating |-> 48, cooling |-> 89, hdd |-> 200, cdd |-> 3500,
     source |-> <<"RESNET/ASHRAE ZIP ">>, lat |-> 25800, lon |-> -80300],
    [name |-> <<"AGAWAM/WESTFIELD, MA">>, heating |-> 5, cooling |-> 87, hdd |-> 6479,
     cdd |-> 678, source |-> <<"RESNET/ASHRAE ZIP ">>, lat |-> 42100, lon |-> -72600],
    [name |-> <<"Clackamas">>, heating |-> 20, cooling |-> Undefined, hdd |-> 4000,
     cdd |-> Undefined, source |-> <<"External CSV">>, lat |-> Undefined, lon |-> Undefined],
    [name |-> <<"Clackamas">>, heating |-> 5, cooling |-> Undefined, hdd |-> 1,
     cdd |-> Undefined, source |-> <<"External CSV">>, lat |-> Undefined, lon |-> Undefined],
    [name |-> <<"Clackamas">>, heating |-> 22, cooling |-> 91, hdd |-> 0,
     cdd |-> Undefined, source |-> <<"External CSV">>, lat |-> Undefined, lon |-> Undefined],
    [name |-> <<"Clackamas">>, heating |-> 65, cooling |-> Undefined, hdd |-> 4000,
     cdd |-> 100, source |-> <<"External CSV">>, lat |-> Undefined, lon |-> Undefined] }

\* typed crossover temperatures (NaN: the field is empty)
CostCrossovers == { NaN, I(5), I(20), I(35), I(48), I(65) }

\* values of the equipment inputs
CostConfigs ==
  { [InitialInputs EXCEPT !.crossoverTemp = c] : c \in CostCrossovers }
  \cup { [electricityRate |-> Rat(30, 100), gasRate |-> Rat(12, 10), heatPumpCOP |-> I(3),
          furnaceEfficiency |-> I(80), crossoverTemp |-> I(20), autoCrossover |-> FALSE,
          heatingLoadInput |-> 8530],
         [electricityRate |-> Rat(12, 100), gasRate |-> Rat(12, 10), heatPumpCOP |-> Rat(35, 10),
          furnaceEfficiency |-> I(95), crossoverTemp |-> I(35), autoCrossover |-> TRUE,
          heatingLoadInput |-> 8530] }

\* the page once a lookup has published cd with the equipment inputs inp
costsPage(cd, inp, loads, calc) ==
  /\ climateData = cd
  /\ houseLoads = loads
  /\ maxCost = calc.maxCost
  /\ inputs = [inp EXCEPT !.crossoverTemp = calc.crossoverInput]
  /\ dom = hideLoading(hideError(showCosts(displayClimateData(cd, InitialDom), calc, inp)))
  /\ last = [DoneLookup EXCEPT !.enriched = cd, !.outcome = "published"]

costsPageOf(cd, inp, loads) == costsPage(cd, inp, loads, calculateHVACCosts(cd, inp, loads))

InitCosts ==
  /\ \E cd \in CostRecords, v \in HeatingLoadInputs :
       costsPageOf(cd, [InitialInputs EXCEPT !.heatingLoadInput = v],
                   updateHeatingLoad([InitialInputs EXCEPT !.heatingLoadInput = v]))
  /\ countyAshraeData = buildCountyFipsIndex(ASHRAE_COUNTY_DATA)
  /\ RESNET_ASHRAE_DATA = RESNET_ASHRAE_DATA_INITIAL
  /\ NOAA_STATIONS_DB = [loaded |-> TRUE, list |-> <<>>]
  /\ protocol = "http:"
  /\ startup = "done"
  /\ lookups = [i \in LookupIds |-> DoneLookup]
  /\ fetches = 1
  /\ sources = [s \in SourceNames |-> IF s = "csv" THEN "read" ELSE "failed"]
  /\ estimate = NoEstimate
  /\ scan = NoScan
  /\ auto = NoAuto
  /\ norm = NoNorm

NextCosts ==
  \/ \E cfg \in CostConfigs : ChangeInput(cfg)
  \/ \E v \in HeatingLoadInputs : ChangeHeatingLoad(v)

SpecCosts == InitCosts /\ [][NextCosts]_vars

\* ------------------------------------------------------------------------
\* Lookups of whatever is typed into the ZIP field
\* ------------------------------------------------------------------------
\* blanks only, too short, too long, five characters with a letter, and a
\* ZIP code
TypedZipInputs ==
  { <<" "," ">>,
    <<"1","2","3">>,
    <<"9","7","2","1","9","0">>,
    <<"9","7","2","1","x">>,
    <<"9","7","2","1","9">> }

NextTyped ==
  \/ \E i \in LookupIds, raw \in TypedZipInputs : Start(i, raw)
  \/ \E i \in LookupIds, loc \in Locations : LocationResponse(i, TRUE, loc)
  \/ \E i \in LookupIds : LocationResponse(i, FALSE, Absent)
  \/ \E i \in LookupIds, f \in FipsInfos : CountyResponse(i, TRUE, f)
  \/ \E i \in LookupIds : CountyResponse(i, FALSE, Absent)
  \/ \E i \in LookupIds, file \in StationFiles : StationsResponse(i, file)
  \/ \E files \in PreloadJsonFiles : tryLoadExternalCountyJson(files)
  \/ \E file \in PreloadCsvFiles : tryLoadExternalCountyCsv(file)
  \/ \E file \in PreloadNormalsFiles : tryMergeNoaaNormalsHddCdd(file)

SpecTyped == Init /\ [][NextTyped]_vars

\* ------------------------------------------------------------------------
\* Network lookups on a page whose preload is over
\* ------------------------------------------------------------------------
\* The page after a preload that found, as external county JSON, nothing,
\* {"41005": 0} or an object holding the Clackamas entry; the static ZIP
\* table is the one of the build script or that of a deployment whose
\* entries carry no coordinates.
InitCounty ==
  LET CountyJsonFiles ==
        { <<NotFound, NotFound>>,
          <<[t |-> "map", kv |-> << << <<"4","1","0","0","5">>, FalsyScalar >> >>], NotFound>>,
          <<[t |-> "map", kv |-> << << <<"1","2","3","4","5">>, JsonEntryClackamas >> >>],
            NotFound>> }
      StaticTableBare ==
        [z \in DOMAIN RESNET_ASHRAE_DATA_INITIAL |->
           [f \in DOMAIN RESNET_ASHRAE_DATA_INITIAL[z] \ {"lat", "lon"} |->
              RESNET_ASHRAE_DATA_INITIAL[z][f]]]
  IN  /\ climateData = Absent
      /\ \E files \in CountyJsonFiles :
           /\ countyAshraeData = JsonMerge(buildCountyFipsIndex(ASHRAE_COUNTY_DATA), files)
           /\ sources = [s \in SourceNames |->
                           IF s = "stations" THEN "pending"
                           ELSE IF s = "json" /\ ~jsonUnread(files) THEN "read" ELSE "failed"]
      /\ RESNET_ASHRAE_DATA \in {RESNET_ASHRAE_DATA_INITIAL, StaticTableBare}
      /\ NOAA_STATIONS_DB = [loaded |-> FALSE, list |-> <<>>]
      /\ houseLoads = updateHeatingLoad(InitialInputs)
      /\ maxCost = I(0)
      /\ inputs = InitialInputs
      /\ dom = InitialDom
      /\ protocol = "http:"
      /\ startup = "done"
      /\ lookups = [i \in LookupIds |-> IdleLookup]
      /\ last = IdleLookup
      /\ fetches = 0
      /\ estimate = NoEstimate
      /\ scan = NoScan
      /\ auto = NoAuto
      /\ norm = NoNorm

NextCounty ==
  \/ \E i \in LookupIds, raw \in ZipInputs : Start(i, raw)
  \/ \E i \in LookupIds, loc \in Locations : LocationResponse(i, TRUE, loc)
  \/ \E i \in LookupIds : LocationResponse(i, FALSE, Absent)
  \/ \E i \in LookupIds, f \in FipsInfos : CountyResponse(i, TRUE, f)
  \/ \E i \in LookupIds : CountyResponse(i, FALSE, Absent)
  \/ \E i \in LookupIds, file \in StationFiles : StationsResponse(i, file)

SpecCounty == InitCounty /\ [][NextCounty]_vars

\* ------------------------------------------------------------------------
\* The three nearest-match scans applied to lists of candidates
\* ------------------------------------------------------------------------
MaxCandidates == 3

ScanNoaa(p, stations) ==
  /\ scan' = [fn |-> "findNearestNoaaStation", lat |-> p[1], lon |-> p[2],
              cands |-> [i \in 1..Len(stations) |->
                           [lat |-> Field(stations[i], "latitude"),
                            lon |-> Field(stations[i], "longitude"), item |-> stations[i]]],
              result |-> LET r == findNearestNoaaStation(p[1], p[2], stations)
                         IN  IF r = Absent THEN Absent ELSE r.station]
  /\ UNCHANGED <<climateData, countyAshraeData, RESNET_ASHRAE_DATA, NOAA_STATIONS_DB, houseLoads,
                 maxCost, inputs, dom, protocol, startup, lookups, last, fetches, sources, estimate,
                 auto, norm>>

ScanNormals(p, stations) ==
  /\ scan' = [fn |-> "nearestStation", lat |-> p[1], lon |-> p[2],
              cands |-> [i \in 1..Len(stations) |->
                           [lat |-> stations[i].lat, lon |-> stations[i].lon,
                            item |-> stations[i]]],
              result |-> nearestStation(p[1], p[2], stations)]
  /\ UNCHANGED <<climateData, countyAshraeData, RESNET_ASHRAE_DATA, NOAA_STATIONS_DB, houseLoads,
                 maxCost, inputs, dom, protocol, startup, lookups, last, fetches, sources, estimate,
                 auto, norm>>

ScanResnet(p, data) ==
  /\ scan' = [fn |-> "findNearestResnetStation", lat |-> p[1], lon |-> p[2],
              cands |-> [i \in 1..Len(RESNET_ASHRAE_DATA_KEYS) |->
                           [lat |-> Field(data[RESNET_ASHRAE_DATA_KEYS[i]], "lat"),
                            lon |-> Field(data[RESNET_ASHRAE_DATA_KEYS[i]], "lon"),
                            item |-> data[RESNET_ASHRAE_DATA_KEYS[i]]]],
              result |-> LET z == findNearestResnetStation(data, p[1], p[2])
                         IN  IF z = <<>> THEN Absent ELSE data[z]]
  /\ UNCHANGED <<climateData, countyAshraeData, RESNET_ASHRAE_DATA, NOAA_STATIONS_DB, houseLoads,
                 maxCost, inputs, dom, protocol, startup, lookups, last, fetches, sources, estimate,
                 auto, norm>>

\* Query points: a geocoded point, a county centroid, a point without
\* latitude.  Stations of noaa_climate_database.json: two at one place, one
\* elsewhere, one without latitude.  Stations of the normals CSV, as
\* normalsStations builds them: two at one place, one elsewhere.  Static ZIP
\* tables: the one of the build script, one whose Jacksonville entry lies
\* where the Portland entry lies, one whose Redding and Seattle entries do
\* while the Portland entry has no latitude, one without latitude on the
\* Portland entry.
NextScan ==
  LET geocoded == <<45450, -122700>>
      centroid == <<45520, -122680>>
      noLatitude == <<Undefined, -122700>>
      NoaaCandidates ==
        { StationPdx,
          [t |-> "entry", name |-> <<"PORTLAND TROUTDALE">>, latitude |-> 45590,
           longitude |-> -122600, hdd |-> 4300],
          StationNoHdd,
          [t |-> "entry", name |-> <<"NO LATITUDE">>, longitude |-> -122600, hdd |-> 4100] }
      NormalsCandidates ==
        { [t |-> "entry", id |-> <<"U","S","W","1">>, name |-> <<>>, lat |-> 45590,
           lon |-> -122600, hdd |-> 4200, cdd |-> Undefined],
          [t |-> "entry", id |-> <<"U","S","W","2">>, name |-> <<>>, lat |-> 45590,
           lon |-> -122600, hdd |-> 4300, cdd |-> Undefined],
          [t |-> "entry", id |-> <<"U","S","C","3">>, name |-> <<>>, lat |-> 45450,
           lon |-> -122700, hdd |-> 4400, cdd |-> Undefined] }
      pdx == RESNET_ASHRAE_DATA_INITIAL[<<"9","7","2","0","1">>]
      at(z) == [RESNET_ASHRAE_DATA_INITIAL[z] EXCEPT !.lat = pdx.lat, !.lon = pdx.lon]
      ScanTables ==
        { RESNET_ASHRAE_DATA_INITIAL,
          [RESNET_ASHRAE_DATA_INITIAL EXCEPT
             ![<<"9","7","5","0","1">>] = at(<<"9","7","5","0","1">>)],
          [RESNET_ASHRAE_DATA_INITIAL EXCEPT
             ![<<"9","6","0","0","1">>] = at(<<"9","6","0","0","1">>),
             ![<<"9","8","1","0","1">>] = at(<<"9","8","1","0","1">>),
             ![<<"9","7","2","0","1">>].lat = Undefined],
          [RESNET_ASHRAE_DATA_INITIAL EXCEPT ![<<"9","7","2","0","1">>].lat = Undefined] }
      SeqsUpTo(S) == UNION { [1..n -> S] : n \in 0..MaxCandidates }
  IN  \/ \E p \in {geocoded, noLatitude}, stations \in SeqsUpTo(NoaaCandidates) :
           ScanNoaa(p, stations)
      \/ \E p \in {centroid, noLatitude}, stations \in SeqsUpTo(NormalsCandidates) :
           ScanNormals(p, stations)
      \/ \E p \in {geocoded, noLatitude}, data \in ScanTables : ScanResnet(p, data)

SpecScan == Init /\ [][NextScan]_vars

\* ------------------------------------------------------------------------
\* The break-even crossover computed from prices, AFUE and COP
\* ------------------------------------------------------------------------
\* the slope of the COP line that computeAutoCrossoverTemperature divides by
copSlope(copAt47F) ==
  LET cop47 == MathMax(I(1), OrDefault(copAt47F, Rat(35, 10)))
      cop17 == MathMax(I(1), Sub(cop47, Rat(15, 10)))
  IN  Div(Sub(cop17, cop47), I(17 - 47))

ComputeAuto(pricePerKWh, pricePerTherm, furnaceEffPercent, copAt47F) ==
  /\ auto' = [pricePerKWh |-> pricePerKWh, pricePerTherm |-> pricePerTherm,
              furnaceEffPercent |-> furnaceEffPercent, copAt47F |-> copAt47F,
              slope |-> copSlope(copAt47F),
              result |-> computeAutoCrossoverTemperature(pricePerKWh, pricePerTherm,
                                                         furnaceEffPercent, copAt47F)]
  /\ UNCHANGED <<climateData, countyAshraeData, RESNET_ASHRAE_DATA, NOAA_STATIONS_DB, houseLoads,
                 maxCost, inputs, dom, protocol, startup, lookups, last, fetches, sources, estimate,
                 scan, norm>>

\* The arguments are parseFloat of what the caller passes: nothing or a text
\* without number (NaN), zero, ordinary figures, a figure beyond the clamp,
\* the text Infinity.
NextAuto ==
  LET AutoPrices == { NaN, I(0), Rat(12, 100), I(5), Infinity }
      AutoEfficiencies == { NaN, I(40), I(95), Infinity }
      AutoCops == { NaN, Rat(1, 2), I(2), Rat(35, 10), I(5), Infinity }
  IN  \E e \in AutoPrices, g \in AutoPrices, a \in AutoEfficiencies, c \in AutoCops :
        ComputeAuto(e, g, a, c)

SpecAuto == InitMerge /\ [][NextAuto]_vars

\* ------------------------------------------------------------------------
\* Normalization applied to raw entries, and again to its result
\* ------------------------------------------------------------------------
\* A raw entry with the given fields; a numeric field holds a number or
\* null, the name a text or the empty text.
RawEntry(fields, filled) ==
  [k \in fields \cup {"t"} |->
     CASE k = "t" -> "entry"
       [] k = "name" -> IF filled THEN <<"Clackamas County, OR">> ELSE <<>>
       [] k = "heating" -> IF filled THEN 22 ELSE JsNull
       [] k = "heating_99" -> 21
       [] k = "hdd" -> IF filled THEN 4000 ELSE JsNull
       [] k = "HDD65" -> 4100
       [] k = "source" -> <<"External CSV import">>
       [] k = "lat" -> IF filled THEN 45410 ELSE JsNull]

Normalize(entry, fipsInfo) ==
  /\ norm' = [entry |-> entry, fipsInfo |-> fipsInfo,
              once |-> normalizeCountyEntry(entry, fipsInfo),
              twice |-> normalizeCountyEntry(normalizeCountyEntry(entry, fipsInfo), fipsInfo)]
  /\ UNCHANGED <<climateData, countyAshraeData, RESNET_ASHRAE_DATA, NOAA_STATIONS_DB, houseLoads,
                 maxCost, inputs, dom, protocol, startup, lookups, last, fetches, sources, estimate,
                 scan, auto>>

NextNormalize ==
  LET RawFields == { "name", "heating", "heating_99", "hdd", "HDD65", "source", "lat" }
  IN  \E fields \in SUBSET RawFields, filled \in BOOLEAN, f \in FipsInfos :
        Normalize(RawEntry(fields, filled), f)

SpecNormalize == InitMerge /\ [][NextNormalize]_vars

\* ------------------------------------------------------------------------
\* The degree-day estimators applied to design temperatures
\* ------------------------------------------------------------------------
\* design temperatures in degrees F, those of the reference cities among them
DesignHeatings == { -15, -5, 0, 7, 18, 25, 32, 40, 48, 55, 64, 65, 70 }
DesignCoolings == { 60, 65, 75, 80, 85, 88, 89, 90, 95 }

\* calculateHDD and calculateCDD applied to a pair of design temperatures
EstimateDegreeDays(heating, cooling) ==
  /\ estimate' = [heating |-> heating, cooling |-> cooling,
                  hdd |-> calculateHDD(heating), cdd |-> calculateCDD(cooling)]
  /\ UNCHANGED <<climateData, countyAshraeData, RESNET_ASHRAE_DATA, NOAA_STATIONS_DB, houseLoads,
                 maxCost, inputs, dom, protocol, startup, lookups, last, fetches, sources, scan, auto, norm>>

NextDegreeDays ==
  \E heating \in DesignHeatings, cooling \in DesignCoolings : EstimateDegreeDays(heating, cooling)

SpecDegreeDays == Init /\ [][NextDegreeDays]_vars

\* ------------------------------------------------------------------------
\* Properties
\* ------------------------------------------------------------------------

\* C1: a lookup of a ZIP that is a key of the static ZIP table (or, when it
\* is not there, of the hardcoded fallback table) with finite heating,
\* cooling, hdd and cdd publishes the record built from that entry and is
\* over in the same step: no resolver call, no fetch of the station
\* database, no later stage of the chain.
C1_StaticZipShortCircuits ==
  [][\A i \in LookupIds :
       LET l == IF lookups'[i].pc = "done" THEN last' ELSE lookups'[i]
           zipCode == l.zipCode
           zr == IF zipCode \in DOMAIN RESNET_ASHRAE_DATA THEN RESNET_ASHRAE_DATA[zipCode]
                 ELSE IF zipCode \in DOMAIN LOCAL_RESNET_FALLBACK
                      THEN LOCAL_RESNET_FALLBACK[zipCode]
                      ELSE Absent
       IN  (/\ lookups[i].pc = "idle"
            /\ lookups'[i].pc # "idle"
            /\ zr # Absent
            /\ \A k \in {"heating", "cooling", "hdd", "cdd"} : NumberIsFinite(Field(zr, k)))
           => /\ lookups'[i].pc = "done"
              /\ l.calls = {}
              /\ l.stages = {"stage1"}
              /\ l.error = NoError
              /\ fetches' = fetches
              /\ climateData' =
                   [name |-> zr.name, heating |-> zr.heating, cooling |-> zr.cooling,
                    hdd |-> zr.hdd, cdd |-> zr.cdd,
                    source |-> <<"RESNET/ASHRAE ZIP ">> \o zipCode \o <<" - ">> \o zr.source,
                    lat |-> zr.lat, lon |-> zr.lon]
              /\ dom'.locationInfo # Absent
              /\ dom'.loadingSection = FALSE]_vars

\* a page opened from a file has resolved 01001 from the fallback table in
\* its second lookup
C1_Witness ==
  /\ protocol = "file:"
  /\ \A i \in LookupIds : i <= 2 => lookups[i].pc = "done"
  /\ last.zipCode = <<"0","1","0","0","1">>
  /\ last.outcome = "published"
  /\ last.stages = {"stage1"}
  /\ climateData # Absent
  /\ climateData.name = <<"AGAWAM/WESTFIELD, MA">>
  /\ climateData.hdd = 6479

\* C2: in a network lookup of a ZIP that is a key of ZIP_TO_FIPS_OVERRIDE,
\* the county index is read with the overridden FIPS whenever it differs
\* from the FIPS the county resolver returned.
C2_OverrideFipsUsed ==
  \A l \in Calls :
        (/\ l.zipCode \in DOMAIN ZIP_TO_FIPS_OVERRIDE
         /\ l.stages \cap {"dataset", "nearest"} # {}
         /\ l.fipsInfo.countyFIPS # ZIP_TO_FIPS_OVERRIDE[l.zipCode])
        => l.fipsKey = ZIP_TO_FIPS_OVERRIDE[l.zipCode]

\* C3: the degree-day enrichment leaves hdd, cdd and source of a record
\* alone when both hdd and cdd are finite on it, and writes a station's hdd
\* or cdd only into a field that is not finite on the record.
C3_EnrichmentKeepsCompleteRecord ==
  \A l \in Calls :
        "enrich" \in l.stages
        => /\ \A f \in {"hdd", "cdd"} :
                NumberIsFinite(l.normalized[f]) => l.enriched[f] = l.normalized[f]
           /\ (NumberIsFinite(l.normalized.hdd) /\ NumberIsFinite(l.normalized.cdd))
              => l.enriched.source = l.normalized.source

\* C4: a record whose heating design temperature is at or above 65 is
\* never published for display, its lookup ends with an error, and no cost
\* on display is Infinity, NaN or negative.
C4_HeatingAtBaseRejected ==
  /\ \A l \in Calls :
           (/\ l.normalized # Absent
            /\ NumberIsFinite(l.normalized.heating)
            /\ l.normalized.heating >= BaseTemp
            /\ l.pc = "done")
           => l.outcome # "published" /\ l.error # NoError
  /\ (climateData # Absent /\ NumberIsFinite(climateData.heating))
     => climateData.heating < BaseTemp
  /\ dom.results # Absent
     => \A systemType \in {"heatPump", "furnace", "hybrid"} :
          \A f \in {"energy", "total"} :
            IsFin(dom.results[systemType][f]) /\ dom.results[systemType][f].n >= 0

\* C5: the hybrid system's heating energy is split by the share of the
\* crossover rule (1 when the design temperature exceeds the crossover or
\* the crossover is at or above 65, 0 when the crossover is at or below the
\* design temperature, else min(1, (65 - crossover) / (65 - design))), the
\* heat-pump part costed at COP and electricity price, the furnace part at
\* AFUE and gas price, and the hybrid cost is their sum.
C5_HybridCostByShareRule ==
  (dom.results # Absent /\ Less(NumOf(climateData.heating), I(BaseTemp)))
  => LET heatingDesign == NumOf(climateData.heating)
         crossover == IF IsFin(inputs.crossoverTemp) THEN inputs.crossoverTemp
                      ELSE I(DefaultCrossover)
         share == IF Less(crossover, heatingDesign) \/ LessEq(I(BaseTemp), crossover) THEN I(1)
                  ELSE IF LessEq(crossover, heatingDesign) THEN I(0)
                  ELSE MathMin(I(1), Div(Sub(I(BaseTemp), crossover),
                                         Sub(I(BaseTemp), heatingDesign)))
         electricityRate == OrDefault(inputs.electricityRate, Rat(12, 100))
         gasRate == OrDefault(inputs.gasRate, Rat(120, 100))
         heatPumpKWh == Mul(share, dom.results["heatPump"].annualKWh)
         furnaceTherms == Mul(Sub(I(1), share), dom.results["furnace"].annualTherms)
     IN  /\ dom.results["hybrid"].annualKWh = heatPumpKWh
         /\ dom.results["hybrid"].annualTherms = furnaceTherms
         /\ dom.results["hybrid"].total =
              MathRound(Add(Mul(heatPumpKWh, electricityRate), Mul(furnaceTherms, gasRate)))

\* C6: the published record is absent or has a finite heating design
\* temperature and a finite hdd; a lookup whose record lacks a finite
\* heating design temperature after normalization, or a finite hdd after
\* enrichment, ends in failure and is not the one that published.
C6_PublishedRecordComplete ==
  /\ climateData # Absent
     => NumberIsFinite(climateData.heating) /\ NumberIsFinite(climateData.hdd)
  /\ \A l \in Calls :
           /\ (l.normalized # Absent /\ ~NumberIsFinite(l.normalized.heating))
              => l.pc = "done" /\ l.outcome # "published" /\ l.error = MsgNoData
                 /\ l.enriched = Absent
           /\ (l.enriched # Absent /\ ~NumberIsFinite(l.enriched.hdd))
              => l.pc = "done" /\ l.outcome # "published" /\ l.error = MsgNoData

\* after a network lookup has published its enriched record, another one
\* has failed for want of degree days and left the published record in place
C6_Witness ==
  /\ last.outcome = "missingHdd"
  /\ last.enriched # Absent
  /\ NumberIsFinite(last.enriched.heating)
  /\ ~NumberIsFinite(last.enriched.hdd)
  /\ dom.errorSection = MsgNoData
  /\ climateData # Absent
  /\ climateData.source # last.enriched.source
  /\ fetches > 0

\* C7: when the location resolver fails the county resolver is not called;
\* when either resolver fails the lookup is over, with an error, without
\* the county dataset lookup, the nearest-station fallback, the
\* normalization or the enrichment, and without publishing.
C7_ResolverFailureIsHard ==
  \A l \in Calls :
        /\ "location" \in l.failed => "county" \notin l.calls
        /\ l.failed # {}
           => /\ l.pc = "done"
              /\ l.outcome # "published"
              /\ l.error = MsgNoData
              /\ l.stages \cap {"dataset", "nearest", "normalize", "enrich"} = {}
              /\ "stations" \notin l.calls
              /\ l.normalized = Absent
              /\ l.enriched = Absent

\* a lookup has lost its county resolver while another one, past both
\* resolvers, waits for the station database
C7_Witness ==
  /\ last.failed = {"county"}
  /\ last.calls = {"location", "county"}
  /\ last.outcome = "countyFailed"
  /\ \E i \in LookupIds : lookups[i].pc = "awaitStations"
  /\ dom.errorSection = MsgNoData

\* C8: a JSON or CSV merge leaves every key of the county index mapped to
\* the entry it had: it only adds entries under keys that were absent.
C8_MergesNeverOverwrite ==
  [][(startup \in {"json", "csv"})
     => (\A k \in DOMAIN countyAshraeData :
           k \in DOMAIN countyAshraeData' /\ countyAshraeData'[k] = countyAshraeData[k])]_vars

\* C9: the station database file is fetched at most once in a session,
\* however the lookups overlap.
C9_StationDatabaseFetchedOnce == fetches <= 1

\* C10: on a page opened from a local file, a lookup of a five-character
\* ZIP that stage 1 does not resolve stops with the needs-network message,
\* which is not the message of a networked lookup without data; it calls no
\* resolver, fetches nothing and publishes nothing.
C10_OfflineStopsWithNeedsNetwork ==
  \A l \in Calls :
    LET zr == IF l.zipCode \in DOMAIN RESNET_ASHRAE_DATA THEN RESNET_ASHRAE_DATA[l.zipCode]
              ELSE IF l.zipCode \in DOMAIN LOCAL_RESNET_FALLBACK
                   THEN LOCAL_RESNET_FALLBACK[l.zipCode]
                   ELSE Absent
    IN  (/\ protocol = "file:"
         /\ l.pc # "idle"
         /\ Len(l.zipCode) = 5
         /\ (zr = Absent \/ \E k \in {"heating", "cooling", "hdd", "cdd"} :
                              ~NumberIsFinite(Field(zr, k))))
        => /\ l.pc = "done"
           /\ l.outcome = "needsNetwork"
           /\ l.error = MsgNeedsNetwork
           /\ l.error # MsgNoData
           /\ l.calls = {}
           /\ l.enriched = Absent
           /\ fetches = 0

\* offline, 97219 has been refused with the needs-network message while the
\* record of an earlier static lookup stays published
C10_Witness ==
  /\ protocol = "file:"
  /\ last.zipCode = <<"9","7","2","1","9">>
  /\ last.outcome = "needsNetwork"
  /\ dom.errorSection = MsgNeedsNetwork
  /\ climateData # Absent

\* C11: the failure a lookup surfaces tells its kind: a resolution failure
\* (a resolver gave no usable result), a data-incomplete failure (no finite
\* heating design temperature, or no finite hdd after enrichment) and a
\* no-data failure (no county entry and no nearest station) are told apart
\* by what is surfaced.  Two lookups that fail one after the other with
\* failures of different kinds surface different errors.
C11_FailureKindsDistinguishable ==
  [][LET kind(l) ==
           IF l.outcome \in {"locationFailed", "countyFailed"} THEN "resolution"
           ELSE IF l.outcome \in {"missingHeating", "missingHdd"} THEN "incomplete"
           ELSE IF l.outcome = "noData" THEN "noData"
           ELSE "none"
     IN  (kind(last) # "none" /\ kind(last') # "none" /\ kind(last') # kind(last))
         => (last'.error # last.error)]_vars

\* C12 (as claimed): for a record with a finite heating design temperature
\* below 65 and hdd > 0, with a positive house load, AFUE and gas price, the
\* heat-loss rate is positive (the furnace burns a positive number of
\* therms) and the furnace cost reported is strictly positive.
C12_FurnaceCostPositive ==
  (/\ dom.results # Absent
   /\ NumberIsFinite(climateData.heating) /\ climateData.heating < BaseTemp
   /\ NumberIsFinite(climateData.hdd) /\ climateData.hdd > 0
   /\ Less(I(0), OrDefault(inputs.furnaceEfficiency, I(95)))
   /\ Less(I(0), OrDefault(inputs.gasRate, Rat(120, 100))))
  => /\ Less(I(0), dom.results["furnace"].annualTherms)
     /\ Less(I(0), dom.results["furnace"].energy)
     /\ Less(I(0), dom.results["furnace"].total)

\* C12 (amended): under the same conditions the heat-loss rate is positive
\* and the furnace cost before rounding, therms times gas price, is strictly
\* positive; the cost reported is that cost rounded to whole dollars, so it
\* is never negative and is strictly positive once the cost before rounding
\* is half a dollar or more.
C12_FurnaceCostPositiveBeforeRounding ==
  (/\ dom.results # Absent
   /\ NumberIsFinite(climateData.heating) /\ climateData.heating < BaseTemp
   /\ NumberIsFinite(climateData.hdd) /\ climateData.hdd > 0
   /\ Less(I(0), OrDefault(inputs.furnaceEfficiency, I(95)))
   /\ Less(I(0), OrDefault(inputs.gasRate, Rat(120, 100))))
  => LET furnace == dom.results["furnace"]
         annualEnergyCost == Mul(furnace.annualTherms, OrDefault(inputs.gasRate, Rat(120, 100)))
     IN  /\ Less(I(0), furnace.annualTherms)
         /\ Less(I(0), annualEnergyCost)
         /\ furnace.energy = MathRound(annualEnergyCost)
         /\ furnace.total = furnace.energy
         /\ LessEq(I(0), furnace.energy)
         /\ LessEq(Rat(1, 2), annualEnergyCost) => LessEq(I(1), furnace.energy)

\* the costs of the record with hdd 1 have been computed again for a gas
\* furnace of 80 percent: it burns some gas and the cost shown for it is 0
C12_Witness ==
  /\ climateData # Absent
  /\ inputs.furnaceEfficiency = I(80)
  /\ climateData.heating = 5
  /\ climateData.hdd = 1
  /\ dom.results # Absent
  /\ Less(I(0), dom.results["furnace"].annualTherms)
  /\ dom.results["furnace"].energy = I(0)

\* C13: for a record with a finite heating design temperature below 65 and
\* a finite hdd, and equipment inputs for which the heat-pump share used for
\* the hybrid system is strictly between 0 and 1, the hybrid cost reported
\* lies between the heat-pump cost and the furnace cost reported.
C13_HybridBetweenSingleModes ==
  (/\ dom.results # Absent
   /\ NumberIsFinite(climateData.heating) /\ climateData.heating < BaseTemp
   /\ NumberIsFinite(climateData.hdd)
   /\ LET pct == heatPumpPercentage(I(climateData.heating),
                                    IF IsFin(inputs.crossoverTemp) THEN inputs.crossoverTemp
                                    ELSE I(DefaultCrossover))
      IN  Less(I(0), pct) /\ Less(pct, I(1)))
  => \A f \in {"energy", "total"} :
       /\ LessEq(MathMin(dom.results["heatPump"][f], dom.results["furnace"][f]),
                 dom.results["hybrid"][f])
       /\ LessEq(dom.results["hybrid"][f],
                 MathMax(dom.results["heatPump"][f], dom.results["furnace"][f]))

\* the Agawam record is costed with electricity at 0.30 and a crossover of
\* 20: the share is 0.5 and the three costs differ, the hybrid one strictly
\* between the other two
C13_Witness ==
  /\ climateData # Absent
  /\ climateData.heating = 5
  /\ climateData.hdd = 6479
  /\ inputs.crossoverTemp = I(20)
  /\ inputs.electricityRate = Rat(30, 100)
  /\ dom.results # Absent
  /\ dom.results["hybrid"].annualKWh = Mul(Rat(1, 2), dom.results["heatPump"].annualKWh)
  /\ Less(dom.results["furnace"].total, dom.results["hybrid"].total)
  /\ Less(dom.results["hybrid"].total, dom.results["heatPump"].total)

\* C14: for a record with a heating design temperature below 65 and
\* hdd > 0, the heat-pump share that calculateHeatPumpEfficiency returns
\* does not go down when the crossover temperature goes up: when the inputs
\* change from a crossover c1 to a crossover c2 >= c1, the share shown after
\* the change is at least the share shown before.
C14_ShareMonotoneInCrossover ==
  [][LET xover(inp) == IF IsFin(inp.crossoverTemp) THEN inp.crossoverTemp
                       ELSE I(DefaultCrossover)
     IN  (/\ climateData # Absent
          /\ climateData' = climateData
          /\ NumberIsFinite(climateData.heating) /\ climateData.heating < BaseTemp
          /\ NumberIsFinite(climateData.hdd) /\ climateData.hdd > 0
          /\ dom.results # Absent
          /\ LessEq(xover(inputs), xover(inputs')))
         => LessEq(dom.hybridSplit, dom'.hybridSplit)]_vars

\* C15 (as claimed): for a record with a heating design temperature below 65
\* and whatever hdd it carries, the heat-pump share returned by
\* calculateHeatPumpEfficiency is exactly 1 when the crossover is 65 and
\* exactly 0 when the crossover equals the heating design temperature.
C15_ShareAtEndpoints ==
  (/\ dom.results # Absent
   /\ NumberIsFinite(climateData.heating) /\ climateData.heating < BaseTemp)
  => /\ inputs.crossoverTemp = I(BaseTemp) => dom.hybridSplit = I(1)
     /\ inputs.crossoverTemp = I(climateData.heating) => dom.hybridSplit = I(0)

\* C15 (amended): the same for every hdd > 0; for an hdd that is 0, negative
\* or not a number the function returns null whatever the crossover.
C15_ShareAtEndpointsPositiveHdd ==
  (/\ dom.results # Absent
   /\ NumberIsFinite(climateData.heating) /\ climateData.heating < BaseTemp)
  => IF NumberIsFinite(climateData.hdd) /\ climateData.hdd > 0
     THEN /\ inputs.crossoverTemp = I(BaseTemp) => dom.hybridSplit = I(1)
          /\ inputs.crossoverTemp = I(climateData.heating) => dom.hybridSplit = I(0)
     ELSE dom.hybridSplit = NullNum

\* the Miami record (heating 48, hdd 200) is costed with a crossover of 48:
\* the split bar shows a share of 0
C15_Witness ==
  /\ climateData # Absent
  /\ climateData.heating = 48
  /\ climateData.hdd = 200
  /\ inputs.crossoverTemp = I(48)
  /\ dom.hybridSplit = I(0)

\* other cooling design temperatures and cooling degree days of a record
CoolingDesigns == { Undefined, 70, 95 }
CoolingDegreeDays == { Undefined, 0, 3000 }

\* C16: for a published record without a cooling design temperature or
\* without cdd, every cost on display is finite, and it is the cost of the
\* same record with any other cooling design temperature and cdd: cooling
\* adds nothing to any cost.
C16_CoolingContributesNothing ==
  (/\ climateData # Absent
   /\ dom.results # Absent
   /\ ~NumberIsFinite(climateData.cooling) \/ ~NumberIsFinite(climateData.cdd))
  => /\ \A systemType \in {"heatPump", "furnace", "hybrid"} :
          IsFin(dom.results[systemType].energy) /\ IsFin(dom.results[systemType].total)
     /\ \A c \in CoolingDesigns, d \in CoolingDegreeDays :
          calculateHVACCosts([climateData EXCEPT !.cooling = c, !.cdd = d],
                             inputs, houseLoads).results = dom.results

\* C17: a lookup whose input is not a string of five digits (empty, of a
\* length other than 5, or with a character that is not a digit) is over at
\* once as invalid input: the invalid-ZIP message is shown, no stage has
\* run, no resolver has been called, nothing has been fetched and the
\* published record is the one it was.
C17_MalformedZipRejected ==
  [][\A i \in LookupIds :
       LET l == IF lookups'[i].pc = "done" THEN last' ELSE lookups'[i]
       IN  (/\ lookups[i].pc = "idle"
            /\ lookups'[i].pc # "idle"
            /\ ~(Len(l.zipCode) = 5 /\ \A k \in 1..Len(l.zipCode) : l.zipCode[k] \in Digits))
           => /\ lookups'[i].pc = "done"
              /\ l.outcome = "invalid"
              /\ l.error = MsgInvalidZip
              /\ dom'.errorSection = MsgInvalidZip
              /\ l.stages = {}
              /\ l.calls = {}
              /\ fetches' = fetches
              /\ climateData' = climateData]_vars

C19_EstimatesNearReference ==
  \A t \in ReferenceCities :
    /\ estimate.heating = t.heating => Abs(estimate.hdd - t.expectedHDD) <= HddTolerance
    /\ estimate.cooling = t.cooling => Abs(estimate.cdd - t.expectedCDD) <= CddTolerance

\* C20: no step of a session (startup merges, the normals merge, lookups)
\* changes an entry stored in the county index: every FIPS key of the index
\* is still a key after the step and maps to an entry with the same fields
\* and the same values, so the index only gains keys.
C20_IndexOnlyGainsKeys ==
  [][\A k \in DOMAIN countyAshraeData :
       /\ k \in DOMAIN countyAshraeData'
       /\ countyAshraeData'[k] = countyAshraeData[k]]_vars

\* C20 (as amended): no step of a session removes a key of the county index,
\* and a step changes an object stored under an existing key only when it is
\* the normals merge giving the object a finite hdd or cdd where it had
\* none: every other field keeps its value and no other field is added.
C20_EntriesChangeOnlyByNormalsFill ==
  [][\A k \in DOMAIN countyAshraeData :
       /\ k \in DOMAIN countyAshraeData'
       /\ IsObject(countyAshraeData[k]) =>
            LET old == countyAshraeData[k]
                new == countyAshraeData'[k]
                filled(f) == /\ f \in {"hdd", "cdd"}
                             /\ startup = "normals"
                             /\ ~NumberIsFinite(Field(old, f))
                             /\ NumberIsFinite(Field(new, f))
            IN  /\ \A f \in DOMAIN old : f \in DOMAIN new /\ (new[f] = old[f] \/ filled(f))
                /\ \A f \in DOMAIN new \ DOMAIN old : filled(f)]_vars

\* the normals merge has given the imported Clackamas entry, which had no
\* hdd, the hdd of the station in the file
C20_Witness ==
  /\ startup = "done"
  /\ sources["json"] = "read"
  /\ sources["normals"] = "read"
  /\ <<"4","1","0","0","5">> \in DOMAIN countyAshraeData
  /\ countyAshraeData[<<"4","1","0","0","5">>] = ("hdd" :> 4200) @@ JsonEntryClackamas

\* C21: the normals merge neither adds nor removes a key of the county
\* index, leaves every field other than hdd and cdd of every stored value
\* as it is (heating, cooling, name, coordinates among them), and leaves an
\* hdd or cdd that is a finite number as it is.
C21_NormalsFillOnlyMissing ==
  [][(startup = "normals")
     => (/\ DOMAIN countyAshraeData' = DOMAIN countyAshraeData
         /\ \A k \in DOMAIN countyAshraeData :
              LET old == countyAshraeData[k]
                  new == countyAshraeData'[k]
              IN  /\ DOMAIN new \ {"hdd", "cdd"} = DOMAIN old \ {"hdd", "cdd"}
                  /\ \A f \in DOMAIN old \ {"hdd", "cdd"} : new[f] = old[f]
                  /\ \A f \in {"hdd", "cdd"} :
                       NumberIsFinite(Field(old, f)) => Field(new, f) = Field(old, f))]_vars

\* the normals merge has run over an imported entry that has coordinates and
\* an hdd but no cdd, with a station in reach that has an hdd and no cdd:
\* the entry is as it was imported
C21_Witness ==
  /\ startup = "done"
  /\ sources["normals"] = "read"
  /\ <<"4","1","0","0","5">> \in DOMAIN countyAshraeData
  /\ countyAshraeData[<<"4","1","0","0","5">>] = JsonEntryClackamasHdd
  /\ countyAshraeData[<<"4","1","0","5","1">>].hdd = 4000

C23_ScanReturnsFirstNearest ==
  (scan.fn # "none" /\ NumberIsFinite(scan.lat) /\ NumberIsFinite(scan.lon))
  => LET scanned == { i \in 1..Len(scan.cands) :
                        NumberIsFinite(scan.cands[i].lat) /\ NumberIsFinite(scan.cands[i].lon) }
         dist(i) == IF scan.fn = "nearestStation"
                    THEN haversine(scan.lat, scan.lon, scan.cands[i].lat, scan.cands[i].lon)
                    ELSE calculateDistance(scan.lat, scan.lon, scan.cands[i].lat, scan.cands[i].lon)
     IN  IF scanned = {} THEN scan.result = Absent
         ELSE \E i \in scanned :
                /\ scan.result = scan.cands[i].item
                /\ \A j \in scanned : dist(i) <= dist(j)
                /\ \A j \in scanned : j < i => dist(i) < dist(j)

\* a scan of three stations has met two at the least distance and returned
\* the first of them, which is not the first of the list
C23_Witness ==
  /\ scan.fn = "findNearestNoaaStation"
  /\ Len(scan.cands) = 3
  /\ scan.cands[1].lat = Undefined
  /\ scan.cands[2].lat = 45590
  /\ scan.cands[3].lat = 45590
  /\ scan.cands[2].item # scan.cands[3].item
  /\ scan.result = scan.cands[2].item

\* C24: whatever prices, AFUE and COP it is given, the break-even crossover
\* computed is a finite temperature from 0 to 70, and it is exactly 35 when
\* the slope of the COP line is zero.
C24_AutoCrossoverFiniteAndClamped ==
  (auto.result # NullNum)
  => /\ IsFin(auto.result)
     /\ LessEq(I(0), auto.result)
     /\ LessEq(auto.result, I(70))
     /\ (auto.slope = I(0) => auto.result = I(35))

\* C25: the record that normalization builds from a raw entry and a
\* resolver result is what normalization builds from that record and the
\* same resolver result: name, heating, cooling, hdd, cdd, source, lat and
\* lon are the same.
C25_NormalizationIdempotent ==
  (norm.once # Absent)
  => /\ DOMAIN norm.twice = {"name", "heating", "cooling", "hdd", "cdd", "source", "lat", "lon"}
     /\ \A k \in DOMAIN norm.twice : norm.twice[k] = norm.once[k]

\* an entry without name and source, whose design temperature stands under
\* an alias and whose hdd is null, has been normalized twice: the name comes
\* from the resolver, the temperature from the alias, the hdd is 0
C25_Witness ==
  /\ norm.once # Absent
  /\ DOMAIN norm.entry = {"t", "heating_99", "hdd", "HDD65"}
  /\ norm.entry.hdd = JsNull
  /\ norm.twice.name = <<"Clackamas", ", ", "OR">>
  /\ norm.twice.heating = 21
  /\ norm.twice.hdd = 0
  /\ norm.twice.lat = Undefined
  /\ norm.twice.source = <<"Appendix A (Normative) + RESNET HDD/CDD">>

\* C26: a step of one lookup leaves every other lookup as it is, in flight
\* or not (none is cancelled), and a lookup that publishes makes its own
\* record the published and the displayed one, whatever was published
\* before and whichever lookups are still in flight.
C26_LastWriterWins ==
  [][/\ \A i \in LookupIds, j \in LookupIds :
          (i # j /\ lookups'[i] # lookups[i]) => lookups'[j] = lookups[j]
     /\ (last' # last /\ last'.outcome = "published")
          => /\ climateData' = last'.enriched
             /\ dom'.locationInfo # Absent
             /\ dom'.locationInfo.name = last'.enriched.name
             /\ dom'.locationInfo.source = last'.enriched.source
             /\ dom'.locationInfo.heating = last'.enriched.heating]_vars

\* the second lookup, started while the first was awaiting the county
\* resolver, has published its record by the network chain; the first is
\* still in flight, now awaiting the station database
C26_Witness ==
  /\ MaxLookups >= 2
  /\ lookups[1].pc = "awaitStations"
  /\ lookups[2].pc = "done"
  /\ last.outcome = "published"
  /\ "enrich" \in last.stages
  /\ climateData = last.enriched
  /\ dom.locationInfo # Absent
  /\ dom.locationInfo.name = last.enriched.name

\* C27: the static ZIP table is, in every reachable state, the table as
\* loaded, and every record published by stage 1 is the record that stage 1
\* builds from the table as loaded.
C27_StaticTableNeverChanges ==
  /\ RESNET_ASHRAE_DATA = RESNET_ASHRAE_DATA_INITIAL
  /\ \A l \in Calls :
       (l.outcome = "published" /\ l.stages = {"stage1"})
       => l.enriched = stage1Record(RESNET_ASHRAE_DATA_INITIAL, l.zipCode)

\* C28: whenever costs are on display with a heat-pump share on the split
\* bar, the hybrid system's annual kWh are that share of the heat pump's
\* annual kWh and its annual therms the remaining share of the furnace's
\* annual therms: the share shown is the share the hybrid cost was computed
\* with.
C28_ShownShareIsCostedShare ==
  (dom.results # Absent /\ IsFin(dom.hybridSplit))
  => /\ dom.results["hybrid"].annualKWh
          = Mul(dom.hybridSplit, dom.results["heatPump"].annualKWh)
     /\ dom.results["hybrid"].annualTherms
          = Mul(Sub(I(1), dom.hybridSplit), dom.results["furnace"].annualTherms)

\* ------------------------------------------------------------------------
\* C29
\* ------------------------------------------------------------------------
\* the ways a call of lookupClimateData ends without publishing
FailureOutcomes ==
  {"invalid", "needsNetwork", "locationFailed", "countyFailed", "noData",
   "missingHeating", "missingHdd"}

InFlight(l) == l.pc \in {"awaitLocation", "awaitCounty", "awaitStations"}

\* C30: in every reachable state the loading indicator is visible and the
\* lookup button is disabled exactly when at least one lookup is in flight,
\* also when lookups overlap.
C30_LoadingIffInFlight ==
  (dom.loadingSection /\ dom.lookupBtnDisabled)
    <=> (\E i \in LookupIds : InFlight(lookups[i]))

====
